---- MODULE Spec2Model ----
(***************************************************************************)
(* FormPilot: field-to-input matching and autofill.                        *)
(*                                                                         *)
(* The repository holds two variants of the extension.  The "store"        *)
(* variant plans a fill in the sidebar store (generateMappings) and sends  *)
(* the plan to ContentScript.fillFields; the "filler" variant sends the    *)
(* fields and a flattened profile to the page, where FormFiller.fill       *)
(* decides and injects in one pass.  Both are modelled over the same page. *)
(*                                                                         *)
(* Strings on which the code computes (split, includes, toLowerCase) are   *)
(* tuples of one-character strings; Chars gives the characters of the      *)
(* names, labels and values the model uses.  Confidences and scores are    *)
(* integers in hundredths (0.92 is 92).                                    *)
(***************************************************************************)
EXTENDS Integers, Sequences, FiniteSets, TLC

VARIABLES
    parseResult,            \* store.parseResult / App.extractedData: Null or the field list
    latestDoc,              \* background storage: parse result of the latest uploaded document
    domInputs,              \* store.domInputs / FormPilotContent.currentInputs
    currentMappingProfile,  \* store.currentMappingProfile / App.currentMapping (a JS value in the editor machine)
    autoFillThreshold,      \* chrome.storage.local autoFillThreshold (0 = not set)
    document,               \* the host page: selector -> element state, or Absent
    mappings,               \* the FillMapping[] of the last fillPage
    results,                \* store variant: the results ContentScript.fillFields reports
    fillResults,            \* filler variant: FormPilotContent.fillResults
    phase,                  \* "idle", or the fill pass that ran: "fillPage" | "fillForm"
    storage,                \* chrome.storage.local formpilot_mapping_profiles
    mappingProfiles,        \* the background script's cache: site key -> profile
    message,                \* the message the background script handled last, or Null
    outcome,                \* what the handling of that message gave
    profileStore,           \* chrome.storage.local mappingProfiles: the members, by key
    downloaded,             \* the YAML file the editor downloaded last, or Null
    file,                   \* the YAML file the editor read last, or Null
    currentTabId,           \* the background script's currentTabId, 0 for null
    serviceMessage,         \* the message BackgroundService handled last, or Null
    serviceResponse,        \* the response it sent to that message
    build,                  \* the content script the page runs
    badges,                 \* the keys of its badges Map: the selectors it tracks a badge for
    markers,                \* selector -> the badges attached for its element
    wrappers,               \* selector -> the wrappers put around its element
    overlayCall,            \* the overlay call handled last
    pending,                \* the request a caller has sent and awaits the answer of
    channel,                \* where that request is: idle, sent, forwarded, open, closed
    received,               \* what the caller's callback was called with
    context,                \* the document context of the active tab: 1 the form, 2 another page
    scanned,                \* the context domInputs was scanned in, 0 before a scan (a
                            \* history variable: the store keeps no such thing)
    approved,               \* the canonicals the user has approved (a history variable)
    page,                   \* the nodes of a document, in document order
    currentInputs,          \* the inputs of the last scan of that document
    scanTimeout,            \* whether the timer of the debounced re-scan is set
    control,                \* one form control: its type, its options, its value, its checked state
    events,                 \* what the last injection did to it, in order: "set" and event names
    injected,               \* the value of the last injection, "" before any
    editing,                \* MappingEditor's mappings state: the members, by canonical name
    saving                  \* the saveMappingProfile calls begun, each with the await it is at

planVars == <<parseResult, latestDoc, domInputs, currentMappingProfile,
              autoFillThreshold, document, mappings, results, fillResults, phase>>

\* the background script of the JSON profile table
jsonVars == <<storage, mappingProfiles, message, outcome, currentTabId>>

\* the mapping editor and the background service it saves to
editorVars == <<profileStore, downloaded, file, serviceMessage, serviceResponse>>

\* the badge overlay of the content script
overlayVars == <<build, badges, markers, wrappers, overlayCall>>

\* the message channel between the sidebar, the background script and the tab
channelVars == <<pending, channel, received>>

pageVars == <<overlayVars, channelVars>>

profileVars == <<jsonVars, editorVars, pageVars>>

\* a document as the scanners see it, and what the content script keeps of it
domVars == <<page, currentInputs, scanTimeout>>

\* one form control under injection
elementVars == <<control, events, injected>>

\* the mapping editor's lists of selectors
editVars == <<editing>>

\* the asynchronous saves of the background script
raceVars == <<saving>>

detailVars == <<elementVars, editVars, raceVars>>

contextVars == <<context, scanned, approved, domVars, detailVars>>

vars == <<planVars, profileVars, contextVars>>

\* null / undefined / no element: records, so that they compare with the records they stand in for
Null == [null |-> TRUE]
Absent == [absent |-> TRUE]
NoChosen == [undefined |-> TRUE]

(***************************************************************************)
(* Program constants                                                       *)
(***************************************************************************)
HIGH == 92
MEDIUM == 80
LOW == 60
PROFILE_CONFIDENCE == 95
DEFAULT_THRESHOLD == 92
SLIDER_MIN == 50

(***************************************************************************)
(* Bounds of the model                                                     *)
(***************************************************************************)
MaxFields == 2

\* the longest field list of the pages with selects, checkboxes and radios
MaxFillFields == 2

\* entries in one imported table
MaxBatch == 2

(***************************************************************************)
(* Strings                                                                 *)
(***************************************************************************)
\* the characters of a string of the model
Chars(s) ==
    CASE s = "" -> <<>>
      [] s = "first_name" -> <<"f", "i", "r", "s", "t", "_", "n", "a", "m", "e">>
      [] s = "name" -> <<"n", "a", "m", "e">>
      [] s = "email" -> <<"e", "m", "a", "i", "l">>
      [] s = "state" -> <<"s", "t", "a", "t", "e">>
      [] s = "agree" -> <<"a", "g", "r", "e", "e">>
      [] s = "gender" -> <<"g", "e", "n", "d", "e", "r">>
      [] s = "gender_m" -> <<"g", "e", "n", "d", "e", "r", "_", "m">>
      [] s = "First Name" -> <<"F", "i", "r", "s", "t", " ", "N", "a", "m", "e">>
      [] s = "Email" -> <<"E", "m", "a", "i", "l">>
      [] s = "Contact Email" -> <<"C", "o", "n", "t", "a", "c", "t", " ", "E", "m", "a", "i", "l">>
      [] s = "State" -> <<"S", "t", "a", "t", "e">>
      [] s = "Agree" -> <<"A", "g", "r", "e", "e">>
      [] s = "Male" -> <<"M", "a", "l", "e">>
      [] s = "John" -> <<"J", "o", "h", "n">>
      [] s = "John Doe" -> <<"J", "o", "h", "n", " ", "D", "o", "e">>
      [] s = "j@x.io" -> <<"j", "@", "x", ".", "i", "o">>
      [] s = "California" -> <<"C", "a", "l", "i", "f", "o", "r", "n", "i", "a">>
      [] s = "Texas" -> <<"T", "e", "x", "a", "s">>
      [] s = "CA" -> <<"C", "A">>
      [] s = "TX" -> <<"T", "X">>
      [] s = "Nevada" -> <<"N", "e", "v", "a", "d", "a">>
      [] s = "yes" -> <<"y", "e", "s">>
      [] s = "no" -> <<"n", "o">>
      [] s = "true" -> <<"t", "r", "u", "e">>
      [] s = "1" -> <<"1">>
      [] s = "on" -> <<"o", "n">>
      [] s = "checked" -> <<"c", "h", "e", "c", "k", "e", "d">>
      [] s = "male" -> <<"m", "a", "l", "e">>
      [] s = "Female" -> <<"F", "e", "m", "a", "l", "e">>
      [] s = "U+2713" -> <<"U+2713">>
      [] s = "U+2611" -> <<"U+2611">>
      [] s = "tax_id_of_the_filer" -> <<"t", "a", "x", "_", "i", "d", "_", "o", "f", "_", "t", "h", "e", "_", "f", "i", "l", "e", "r">>
      [] s = "Tax ID of filer" -> <<"T", "a", "x", " ", "I", "D", " ", "o", "f", " ", "f", "i", "l", "e", "r">>
      [] s = "12" -> <<"1", "2">>
      [] s = "tax" -> <<"t", "a", "x">>
      [] s = "blank" -> <<"b", "l", "a", "n", "k">>

LowerChar(c) ==
    CASE c = "A" -> "a"
      [] c = "B" -> "b"
      [] c = "C" -> "c"
      [] c = "D" -> "d"
      [] c = "E" -> "e"
      [] c = "F" -> "f"
      [] c = "G" -> "g"
      [] c = "H" -> "h"
      [] c = "I" -> "i"
      [] c = "J" -> "j"
      [] c = "K" -> "k"
      [] c = "L" -> "l"
      [] c = "M" -> "m"
      [] c = "N" -> "n"
      [] c = "O" -> "o"
      [] c = "P" -> "p"
      [] c = "Q" -> "q"
      [] c = "R" -> "r"
      [] c = "S" -> "s"
      [] c = "T" -> "t"
      [] c = "U" -> "u"
      [] c = "V" -> "v"
      [] c = "W" -> "w"
      [] c = "X" -> "x"
      [] c = "Y" -> "y"
      [] c = "Z" -> "z"
      [] OTHER -> c

\* String.prototype.toLowerCase
ToLower(s) == [i \in 1..Len(s) |-> LowerChar(s[i])]

\* String.prototype.replace(/_/g, ' ')
ReplaceUnderscores(s) == [i \in 1..Len(s) |-> IF s[i] = "_" THEN " " ELSE s[i]]

\* String.prototype.includes
Includes(s, sub) ==
    \E i \in 0..(Len(s) - Len(sub)) : SubSeq(s, i + 1, i + Len(sub)) = sub

IsSpace(c) == c = " "

\* index of the first character of s at or after i satisfying / not satisfying IsSpace, else Len(s)+1
RECURSIVE NextSpace(_, _)
NextSpace(s, i) ==
    IF i > Len(s) \/ IsSpace(s[i]) THEN i ELSE NextSpace(s, i + 1)

RECURSIVE NextNonSpace(_, _)
NextNonSpace(s, i) ==
    IF i > Len(s) \/ ~IsSpace(s[i]) THEN i ELSE NextNonSpace(s, i + 1)

\* String.prototype.split(' '): every single space separates
RECURSIVE SplitSpace(_)
SplitSpace(s) ==
    LET i == NextSpace(s, 1)
    IN  IF i > Len(s) THEN <<s>>
        ELSE <<SubSeq(s, 1, i - 1)>> \o SplitSpace(SubSeq(s, i + 1, Len(s)))

\* String.prototype.split(/\s+/): a run of white space separates
RECURSIVE SplitSpaces(_)
SplitSpaces(s) ==
    LET i == NextSpace(s, 1)
    IN  IF i > Len(s) THEN <<s>>
        ELSE <<SubSeq(s, 1, i - 1)>>
                 \o SplitSpaces(SubSeq(s, NextNonSpace(s, i), Len(s)))

Min(a, b) == IF a <= b THEN a ELSE b

(***************************************************************************)
(* The page: the elements a document may hold, in document order            *)
(***************************************************************************)
DomOrder == <<"#first_name", "#email", "input[name=email]", "#state", "#agree", "#gender_m",
              "#tax", "#blank">>

TextSelectors == {"#first_name", "#email", "input[name=email]"}

Selectors == {DomOrder[i] : i \in 1..Len(DomOrder)}

\* the attributes of the element a selector stands for
ElementInfo(sel) ==
    CASE sel = "#first_name" ->
            [type |-> "text", label |-> "First Name", name |-> "first_name", id |-> "first_name"]
      [] sel = "#email" ->
            [type |-> "text", label |-> "Email", name |-> "", id |-> "email"]
      [] sel = "input[name=email]" ->
            [type |-> "text", label |-> "Contact Email", name |-> "email", id |-> ""]
      [] sel = "#state" ->
            [type |-> "select", label |-> "State", name |-> "state", id |-> "state"]
      [] sel = "#agree" ->
            [type |-> "checkbox", label |-> "Agree", name |-> "agree", id |-> "agree"]
      [] sel = "#gender_m" ->
            [type |-> "radio", label |-> "Male", name |-> "gender", id |-> "gender_m"]
      [] sel = "#tax" ->
            [type |-> "text", label |-> "Tax ID of filer", name |-> "tax", id |-> "tax"]
      [] sel = "#blank" ->
            [type |-> "text", label |-> "", name |-> "", id |-> "blank"]

\* the <option>s of the select element
Options == <<[value |-> "CA", text |-> "California"], [value |-> "TX", text |-> "Texas"]>>

\* the value attribute of the radio button
RadioValue == "male"

\* an element as the page loads it: empty, unchecked, carrying no data-formpilot-* attribute
FreshElement ==
    [value |-> "", checked |-> FALSE, filled |-> FALSE, field |-> "", confidence |-> 0]

Documents == [Selectors -> {Absent, FreshElement}]

\* pages of text inputs only
TextDocuments == {d \in Documents : \A sel \in Selectors \ TextSelectors : d[sel] = Absent}

\* document.querySelector(selector)
QuerySelector(doc, sel) == IF sel \in DOMAIN doc THEN doc[sel] ELSE Absent

DomInputOf(sel) ==
    [selector |-> sel, type |-> ElementInfo(sel).type, label |-> ElementInfo(sel).label,
     name |-> ElementInfo(sel).name, id |-> ElementInfo(sel).id,
     placeholder |-> "", ariaLabel |-> ""]

\* ContentScript.scanPage: one DOMInput per element present, in document order
RECURSIVE ScanFrom(_, _)
ScanFrom(doc, i) ==
    IF i > Len(DomOrder) THEN <<>>
    ELSE (IF doc[DomOrder[i]] # Absent THEN <<DomInputOf(DomOrder[i])>> ELSE <<>>)
             \o ScanFrom(doc, i + 1)

scanPage(doc) == ScanFrom(doc, 1)

(***************************************************************************)
(* The parser's output                                                     *)
(***************************************************************************)
Canonicals == {"first_name", "name", "email"}

Confidences == {70, 85, 95}

\* a name of five words, four of which the label of #tax holds
LongCanonical == "tax_id_of_the_filer"

ValueOf(canonical) ==
    CASE canonical = "first_name" -> "John"
      [] canonical = "name" -> "John Doe"
      [] canonical = "email" -> "j@x.io"
      [] canonical = LongCanonical -> "12"

Candidate(canonical, k) == [value |-> ValueOf(canonical), confidence |-> k]

\* a field with a chosen candidate, or with candidates only
FieldKinds ==
    {[canonical |-> c, candidates |-> <<Candidate(c, k)>>, chosen |-> Candidate(c, k)] :
        c \in Canonicals, k \in Confidences}
    \cup
    {[canonical |-> c, candidates |-> <<Candidate(c, 95)>>, chosen |-> NoChosen] :
        c \in {"email"}}

FieldLists == UNION {[1..n -> FieldKinds] : n \in 0..MaxFields}

ParseResults == {[fields |-> fs] : fs \in FieldLists}

\* the fields of a document for a form with a select, a checkbox and a radio group
FormCanonicals == {"email", "state", "agree", "gender"}

FormValues(canonical) ==
    CASE canonical = "email" -> {"j@x.io"}
      [] canonical = "state" -> {"California", "TX", "Nevada"}
      [] canonical = "agree" -> {"yes", "no"}
      [] canonical = "gender" -> {"male", "Female"}

FormFieldKinds ==
    UNION {{[canonical |-> c, candidates |-> <<[value |-> v, confidence |-> 95]>>,
             chosen |-> [value |-> v, confidence |-> 95]] : v \in FormValues(c)} :
           c \in FormCanonicals}

FormFieldLists == UNION {[1..n -> FormFieldKinds] : n \in 1..MaxFillFields}

FormParseResults == {[fields |-> fs] : fs \in FormFieldLists}

\* the page of that form
FormDocument ==
    [sel \in Selectors |->
        IF sel \in {"#email", "#state", "#agree", "#gender_m"} THEN FreshElement ELSE Absent]

\* the profile saved for that form
FormProfile ==
    [selectors |-> [c \in FormCanonicals |->
        CASE c = "email" -> <<"#email">>
          [] c = "state" -> <<"#state">>
          [] c = "agree" -> <<"#agree">>
          [] c = "gender" -> <<"#gender_m">>]]

(***************************************************************************)
(* Mapping profiles: selectors is a function canonical -> selector list    *)
(***************************************************************************)
ProfileKeys == {"first_name", "email"}

SelectorLists == {<<"#email">>, <<"#email", "input[name=email]">>}

Profiles ==
    {[selectors |-> s] :
        s \in UNION {[ks -> SelectorLists] : ks \in SUBSET ProfileKeys}}

\* the order in which Object.entries walks the keys of a selectors object
KeyOrder == <<"first_name", "name", "email", "state", "agree", "gender">>

(***************************************************************************)
(* Store variant: generateMappings                                         *)
(***************************************************************************)
\* the inner loop: some word of the label includes the word or is included in it
WordMatches(canonicalWord, labelWords) ==
    \E j \in 1..Len(labelWords) :
        Includes(labelWords[j], canonicalWord) \/ Includes(canonicalWord, labelWords[j])

\* matchCount / totalWords, in hundredths
MatchRatio(canonicalWords, labelWords) ==
    (Cardinality({i \in 1..Len(canonicalWords) : WordMatches(canonicalWords[i], labelWords)})
        * 100) \div Len(canonicalWords)

\* calculateSemanticSimilarity(canonical, label), in hundredths
calculateSemanticSimilarity(canonical, label) ==
    MatchRatio(SplitSpace(ReplaceUnderscores(ToLower(Chars(canonical)))),
               SplitSpaces(ToLower(Chars(label))))

\* the scores of the names and labels of the model, computed once
Labels == {ElementInfo(sel).label : sel \in Selectors}

Similarity ==
    [c \in Canonicals \cup FormCanonicals \cup {LongCanonical}, l \in Labels |->
        calculateSemanticSimilarity(c, l)]

\* IsReady with the threshold of the wrong band
IsReadyLow(field) == field.chosen # NoChosen /\ field.chosen.confidence >= LOW

\* parseResult.fields.filter(field => field.chosen && field.chosen.confidence >= HIGH)
IsReady(field) == field.chosen # NoChosen /\ field.chosen.confidence >= HIGH

\* Array.prototype.find over indices: the least of the indices that satisfy, 0 if none does
Find(hits) == IF hits = {} THEN 0 ELSE CHOOSE i \in hits : \A j \in hits : i <= j

\* domInputs.find(inp => inp.selector === selector): index of the first such input, 0 if none
FindInput(inputs, selector) ==
    Find({i \in 1..Len(inputs) : inputs[i].selector = selector})

\* FirstResolving without the loop: only the first listed selector is tried
FirstOnly(selectors, inputs, i) ==
    IF i > Len(selectors) THEN 0 ELSE FindInput(inputs, selectors[i])

\* BestMatch without the sort: the first input, whatever its score
FirstScored(scores) == 1

\* the loop over the profile's selectors of a field: the input of the first one found, 0 if none
RECURSIVE FirstResolving(_, _, _)
FirstResolving(selectors, inputs, i) ==
    IF i > Len(selectors) THEN 0
    ELSE IF FindInput(inputs, selectors[i]) # 0 THEN FindInput(inputs, selectors[i])
    ELSE FirstResolving(selectors, inputs, i + 1)

ProfileMatch(field, inputs, profile) ==
    IF profile # Null /\ field.canonical \in DOMAIN profile.selectors
    THEN FirstResolving(profile.selectors[field.canonical], inputs, 1)
    ELSE 0

\* domInputs.map(input => ({input, score: calculateSemanticSimilarity(...)}))
Scores(field, inputs) ==
    [i \in 1..Len(inputs) |-> Similarity[field.canonical, inputs[i].label]]

\* matches.sort((a, b) => b.score - a.score)[0]: the first input of maximal score
BestMatch(scores) ==
    CHOOSE i \in DOMAIN scores :
        /\ \A j \in DOMAIN scores : scores[j] <= scores[i]
        /\ \A j \in 1..(i - 1) : scores[j] < scores[i]

\* the end of one pass of the loop over readyFields: p is the input the profile gave
\* (0 if none), s the best input by score
PushMapping(field, inputs, p, s, score) ==
    LET bestInput == IF p # 0 THEN p ELSE IF score >= MEDIUM THEN s ELSE 0
        matchConfidence == IF p # 0 THEN PROFILE_CONFIDENCE
                           ELSE IF score >= MEDIUM THEN score ELSE 0
        matchMethod == IF p # 0 THEN "profile_match"
                       ELSE IF score >= HIGH THEN "exact_match" ELSE "semantic_match"
    IN  IF bestInput # 0 /\ matchConfidence >= MEDIUM
        THEN <<[fieldCanonical |-> field.canonical,
                domSelector |-> inputs[bestInput].selector,
                confidence |-> Min(field.chosen.confidence, matchConfidence),
                method |-> matchMethod]>>
        ELSE <<>>

SemanticMatch(field, inputs, p, scores) ==
    PushMapping(field, inputs, p, BestMatch(scores), scores[BestMatch(scores)])

\* one pass of the loop over readyFields: the mapping pushed for the field, if any
MappingFor(field, inputs, profile) ==
    SemanticMatch(field, inputs, ProfileMatch(field, inputs, profile), Scores(field, inputs))

RECURSIVE MappingsFrom(_, _, _, _)
MappingsFrom(fields, i, inputs, profile) ==
    IF i > Len(fields) THEN <<>>
    ELSE (IF IsReady(fields[i]) THEN MappingFor(fields[i], inputs, profile) ELSE <<>>)
             \o MappingsFrom(fields, i + 1, inputs, profile)

generateMappings(pr, inputs, profile) ==
    IF pr = Null \/ Len(inputs) = 0 THEN <<>>
    ELSE MappingsFrom(pr.fields, 1, inputs, profile)

\* the last of the candidates with the highest confidence
LastBest(candidates) ==
    candidates[CHOOSE i \in 1..Len(candidates) :
                  /\ \A j \in 1..Len(candidates) :
                        candidates[j].confidence <= candidates[i].confidence
                  /\ \A j \in (i + 1)..Len(candidates) :
                        candidates[j].confidence < candidates[i].confidence]

\* the value put into the chosen candidate of every field
ValueEverywhere(pr, canonical, value) ==
    [fields |-> [i \in 1..Len(pr.fields) |->
        IF pr.fields[i].chosen # NoChosen
        THEN [pr.fields[i] EXCEPT !.chosen.value = value]
        ELSE pr.fields[i]]]

\* store.updateFieldValue(canonical, value): {...field, chosen: {...field.chosen, value}}
\* for the fields of that name that have a chosen candidate
updateFieldValue(pr, canonical, value) ==
    [fields |-> [i \in 1..Len(pr.fields) |->
        IF pr.fields[i].canonical = canonical /\ pr.fields[i].chosen # NoChosen
        THEN [pr.fields[i] EXCEPT !.chosen.value = value]
        ELSE pr.fields[i]]]

\* candidates.reduce((best, current) => current.confidence > best.confidence ? current
\* : best): the first of the candidates with the highest confidence
BestCandidate(candidates) ==
    candidates[Find({i \in 1..Len(candidates) :
                        \A j \in 1..Len(candidates) :
                            candidates[j].confidence <= candidates[i].confidence})]

\* store.approveField(canonical): a field of that name with candidates and no chosen one
\* gets its best candidate chosen; every other field stays as it is
approveField(pr, canonical) ==
    [fields |-> [i \in 1..Len(pr.fields) |->
        IF /\ pr.fields[i].canonical = canonical
           /\ Len(pr.fields[i].candidates) > 0
           /\ pr.fields[i].chosen = NoChosen
        THEN [pr.fields[i] EXCEPT !.chosen = BestCandidate(pr.fields[i].candidates)]
        ELSE pr.fields[i]]]

(***************************************************************************)
(* Filler variant: FormFiller                                              *)
(***************************************************************************)
Lower(str) == ToLower(Chars(str))

\* field.chosen || field.candidates[0]
CandidateOf(field) ==
    IF field.chosen # NoChosen THEN field.chosen
    ELSE IF Len(field.candidates) > 0 THEN field.candidates[1]
    ELSE NoChosen

\* options.find(opt => opt.value === value || opt.text === value ||
\*                     opt.text.toLowerCase() === value.toLowerCase()): index, 0 if none
FillerOption(options, value) ==
    Find({i \in 1..Len(options) :
            \/ options[i].value = value
            \/ options[i].text = value
            \/ Lower(options[i].text) = Lower(value)})

\* selectEl.value = matchedOption.value, or selectEl.value = value: assigning a value no
\* option has leaves the select without a selection
SelectValue(options, option) == IF option # 0 THEN options[option].value ELSE ""

\* the radio buttons of the group a radio element belongs to
SameGroup(doc, sel) ==
    {r \in Selectors :
        /\ doc[r] # Absent
        /\ ElementInfo(r).type = "radio"
        /\ ElementInfo(r).name = ElementInfo(sel).name}

\* the switch over the element's type: the document with the value put in
Injected(doc, selector, value, type) ==
    CASE type = "checkbox" ->
            [doc EXCEPT ![selector].checked =
                Lower(value) = Chars("true") \/ Lower(value) = Chars("yes") \/ value = "1"]
      [] type = "radio" ->
            [r \in Selectors |->
                IF r \in SameGroup(doc, selector) /\ RadioValue = value
                THEN [doc[r] EXCEPT !.checked = TRUE]
                ELSE doc[r]]
      [] type = "select" ->
            [doc EXCEPT ![selector].value = SelectValue(Options, FillerOption(Options, value))]
      [] OTHER ->
            [doc EXCEPT ![selector].value = value]

\* the data-formpilot-* attributes set on the element
Marked(doc, selector, fieldName, source) ==
    [doc EXCEPT ![selector].filled = TRUE,
                ![selector].field = fieldName,
                ![selector].confidence = source.confidence]

\* FormFiller.fillField: the document after it and the FillResult it returns
fillField(doc, selector, value, fieldName, source) ==
    IF QuerySelector(doc, selector) = Absent
    THEN [doc |-> doc,
          result |-> [field |-> fieldName, selector |-> selector, success |-> FALSE,
                      confidence |-> source.confidence, source |-> source,
                      error |-> "Element not found"]]
    ELSE [doc |-> Marked(Injected(doc, selector, value, ElementInfo(selector).type),
                         selector, fieldName, source),
          result |-> [field |-> fieldName, selector |-> selector, success |-> TRUE,
                      confidence |-> source.confidence, source |-> source,
                      error |-> ""]]

\* the first find of findMatchingInput: label, name or id equal to the field name
ExactMatches(inputs, fieldName, normalized) ==
    {i \in 1..Len(inputs) :
        \/ Lower(inputs[i].label) = normalized
        \/ (inputs[i].name # "" /\ Lower(inputs[i].name) = Chars(fieldName))
        \/ (inputs[i].id # "" /\ Lower(inputs[i].id) = Chars(fieldName))}

\* `${label} ${placeholder} ${ariaLabel}`
InputText(input) ==
    Lower(input.label) \o <<" ">> \o Lower(input.placeholder) \o <<" ">> \o Lower(input.ariaLabel)

\* the second find: every keyword of the field name is in the input's text
FuzzyMatches(inputs, fieldKeywords) ==
    {i \in 1..Len(inputs) :
        \A k \in 1..Len(fieldKeywords) : Includes(InputText(inputs[i]), fieldKeywords[k])}

FirstMatch(exact, inputs, normalized) ==
    IF exact # 0 THEN exact ELSE Find(FuzzyMatches(inputs, SplitSpace(normalized)))

MatchNormalized(inputs, fieldName, normalized) ==
    FirstMatch(Find(ExactMatches(inputs, fieldName, normalized)), inputs, normalized)

\* FormFiller.findMatchingInput: index of the matched input, 0 if none
findMatchingInput(inputs, fieldName) ==
    MatchNormalized(inputs, fieldName, ReplaceUnderscores(Lower(fieldName)))

\* fieldMap.get(canonical): the last field of that name, NoChosen if there is none
FieldMapGet(fields, canonical) ==
    IF \E i \in 1..Len(fields) : fields[i].canonical = canonical
    THEN fields[CHOOSE i \in 1..Len(fields) :
                    /\ fields[i].canonical = canonical
                    /\ \A j \in (i + 1)..Len(fields) : fields[j].canonical # canonical]
    ELSE NoChosen

\* a pass that did nothing, and one that made one fill
Nothing(doc) == [doc |-> doc, results |-> <<>>]

One(filled) == [doc |-> filled.doc, results |-> <<filled.result>>]

\* the results of a step before the results of the steps after it
Prepend(first, rest) == [doc |-> rest.doc, results |-> first \o rest.results]

\* the body of the loop over Object.entries(mapping), from the candidate on
MappedCandidate(doc, selector, canonical, candidate, threshold) ==
    IF candidate = NoChosen THEN Nothing(doc)
    ELSE IF candidate.confidence < threshold
    THEN [doc |-> doc,
          results |-> <<[field |-> canonical, selector |-> selector,
                         success |-> FALSE, confidence |-> candidate.confidence,
                         source |-> candidate, error |-> "below threshold"]>>]
    ELSE One(fillField(doc, selector, candidate.value, canonical, candidate))

\* the body of the loop over Object.entries(mapping)
MappedStep(doc, fields, mapping, threshold, canonical) ==
    IF canonical \notin DOMAIN mapping \/ FieldMapGet(fields, canonical) = NoChosen
    THEN Nothing(doc)
    ELSE MappedCandidate(doc, mapping[canonical], canonical,
                         CandidateOf(FieldMapGet(fields, canonical)), threshold)

\* the loop over Object.entries(mapping), from the i-th key on
RECURSIVE MappedPass(_, _, _, _, _)
RECURSIVE MappedRest(_, _, _, _, _)
MappedRest(step, fields, mapping, threshold, i) ==
    Prepend(step.results, MappedPass(step.doc, fields, mapping, threshold, i))

MappedPass(doc, fields, mapping, threshold, i) ==
    IF i > Len(KeyOrder) THEN Nothing(doc)
    ELSE MappedRest(MappedStep(doc, fields, mapping, threshold, KeyOrder[i]),
                    fields, mapping, threshold, i + 1)

\* the body of the loop over unmappedFields, from the matched input (0 if none) on
UnmappedCandidate(doc, inputs, canonical, candidate, threshold, matchedInput) ==
    IF candidate = NoChosen \/ candidate.confidence < threshold \/ matchedInput = 0
    THEN Nothing(doc)
    ELSE One(fillField(doc, inputs[matchedInput].selector, candidate.value, canonical,
                       candidate))

\* the body of the loop over the fields the mapping does not name
UnmappedStep(doc, inputs, field, mapping, threshold) ==
    IF field.canonical \in DOMAIN mapping THEN Nothing(doc)
    ELSE UnmappedCandidate(doc, inputs, field.canonical, CandidateOf(field), threshold,
                           findMatchingInput(inputs, field.canonical))

\* the loop over the fields the mapping does not name, from the i-th field on
RECURSIVE UnmappedPass(_, _, _, _, _, _)
RECURSIVE UnmappedRest(_, _, _, _, _, _)
UnmappedRest(step, inputs, fields, mapping, threshold, i) ==
    Prepend(step.results, UnmappedPass(step.doc, inputs, fields, mapping, threshold, i))

UnmappedPass(doc, inputs, fields, mapping, threshold, i) ==
    IF i > Len(fields) THEN Nothing(doc)
    ELSE UnmappedRest(UnmappedStep(doc, inputs, fields[i], mapping, threshold),
                      inputs, fields, mapping, threshold, i + 1)

\* the second loop of FormFiller.fill, after the first
ThenUnmapped(mapped, inputs, fields, mapping, threshold) ==
    Prepend(mapped.results, UnmappedPass(mapped.doc, inputs, fields, mapping, threshold, 1))

\* FormFiller.fill
fill(doc, inputs, fields, mapping, threshold) ==
    ThenUnmapped(MappedPass(doc, fields, mapping, threshold, 1),
                 inputs, fields, mapping, threshold)

\* useFormFiller.fillForm: the first selector of every field that has one
FlatMapping(selectors) ==
    [canonical \in {c \in DOMAIN selectors : Len(selectors[c]) > 0} |-> selectors[canonical][1]]

\* settings.autoFillThreshold || 0.92
Threshold(setting) == IF setting = 0 THEN DEFAULT_THRESHOLD ELSE setting

(***************************************************************************)
(* Store variant: ContentScript                                            *)
(***************************************************************************)
\* String.prototype.trim
RECURSIVE Trim(_)
Trim(s) ==
    IF Len(s) > 0 /\ IsSpace(s[1]) THEN Trim(SubSeq(s, 2, Len(s)))
    ELSE IF Len(s) > 0 /\ IsSpace(s[Len(s)]) THEN Trim(SubSeq(s, 1, Len(s) - 1))
    ELSE s

\* field.chosen?.value || field.candidates[0]?.value || null, "" standing for null
FieldValue(field) ==
    IF field.chosen # NoChosen /\ field.chosen.value # "" THEN field.chosen.value
    ELSE IF Len(field.candidates) > 0 THEN field.candidates[1].value
    ELSE ""

\* BackgroundService.getFieldValue: the value of the first field of that name in the
\* latest document, "" (null) when there is none
getFieldValue(doc, canonical) ==
    IF doc = Null \/ ~\E i \in 1..Len(doc.fields) : doc.fields[i].canonical = canonical
    THEN ""
    ELSE FieldValue(doc.fields[Find({i \in 1..Len(doc.fields) :
                                        doc.fields[i].canonical = canonical})])

fillTextElement(element, value) ==
    [element |-> [element EXCEPT !.value = value], success |-> TRUE]

\* opt.textContent?.trim().toLowerCase()
OptionText(options, i) == ToLower(Trim(Chars(options[i].text)))

\* the three finds of fillSelectElement, each tried only when the one before found nothing
SelectOption(options, byValue, value) ==
    IF byValue # 0 THEN byValue
    ELSE IF \E i \in 1..Len(options) : OptionText(options, i) = value
    THEN Find({i \in 1..Len(options) : OptionText(options, i) = value})
    ELSE Find({i \in 1..Len(options) :
                  \/ Includes(OptionText(options, i), value)
                  \/ Includes(value, OptionText(options, i))})

SetOption(element, options, option) ==
    IF option # 0
    THEN [element |-> [element EXCEPT !.value = options[option].value], success |-> TRUE]
    ELSE [element |-> element, success |-> FALSE]

fillSelectElement(element, options, value) ==
    SetOption(element, options,
              SelectOption(options, Find({i \in 1..Len(options) : options[i].value = value}),
                           Lower(value)))

TruthyTokens == {"true", "yes", "1", "on", "checked", "U+2713", "U+2611"}

fillCheckboxElement(element, value) ==
    [element |-> [element EXCEPT !.checked = \E t \in TruthyTokens : Lower(value) = Chars(t)],
     success |-> TRUE]

fillRadioElement(element, value) ==
    IF RadioValue = value \/ Lower(RadioValue) = Lower(value)
    THEN [element |-> [element EXCEPT !.checked = TRUE], success |-> TRUE]
    ELSE [element |-> element, success |-> FALSE]

\* the body of fillSingleField once the value has come back
FillByType(element, type, value) ==
    IF value = "" THEN [element |-> element, success |-> FALSE]
    ELSE IF type = "select" THEN fillSelectElement(element, Options, value)
    ELSE IF type = "checkbox" THEN fillCheckboxElement(element, value)
    ELSE IF type = "radio" THEN fillRadioElement(element, value)
    ELSE fillTextElement(element, value)

\* ContentScript.fillSingleField
fillSingleField(element, selector, mapping, stored) ==
    FillByType(element, ElementInfo(selector).type, getFieldValue(stored, mapping.fieldCanonical))

\* results.push({selector, success}) and the element as the fill left it
Pushed(doc, selector, filled) ==
    [doc |-> [doc EXCEPT ![selector] = filled.element],
     results |-> <<[selector |-> selector, success |-> filled.success]>>]

\* the body of the loop of fillFields: a selector with no element is skipped
FillStep(doc, mapping, stored) ==
    IF QuerySelector(doc, mapping.domSelector) = Absent THEN Nothing(doc)
    ELSE Pushed(doc, mapping.domSelector,
                fillSingleField(QuerySelector(doc, mapping.domSelector),
                                mapping.domSelector, mapping, stored))

\* ContentScript.fillFields: the document after it and the results it reports
RECURSIVE fillFields(_, _, _, _)
RECURSIVE FillRest(_, _, _, _)
FillRest(step, plan, stored, i) ==
    Prepend(step.results, fillFields(step.doc, plan, stored, i))

fillFields(doc, plan, stored, i) ==
    IF i > Len(plan) THEN Nothing(doc)
    ELSE FillRest(FillStep(doc, plan[i], stored), plan, stored, i + 1)

(***************************************************************************)
(* JavaScript values as the profile code sees them: numbers, strings (the  *)
(* tuple of their characters), null, undefined, arrays, and objects as the *)
(* list of their members in insertion order.  Property names the code      *)
(* writes (version, site, ...) are strings; names that are data (site      *)
(* keys, canonical names) are character tuples.                            *)
(***************************************************************************)
Undefined == NoChosen

Num(n) == [num |-> n]

Str(s) == [str |-> s]

Arr(items) == [items |-> items]

Obj(members) == [members |-> members]

\* typeof v
TypeOf(v) ==
    IF "num" \in DOMAIN v THEN "number"
    ELSE IF "str" \in DOMAIN v THEN "string"
    ELSE IF v = Undefined THEN "undefined"
    ELSE "object"

\* whether v counts as true in a condition
Truthy(v) == v # Null /\ v # Undefined /\ v # Num(0) /\ v # Str(<<>>)

HasMember(v, key) ==
    "members" \in DOMAIN v /\ \E i \in 1..Len(v.members) : v.members[i][1] = key

\* v[key]: the member of that name, undefined when v has none
Get(v, key) ==
    IF HasMember(v, key)
    THEN v.members[Find({i \in 1..Len(v.members) : v.members[i][1] = key})][2]
    ELSE Undefined

\* members[key] = value: in place when the key is there, at the end when it is not
SetMember(members, key, value) ==
    IF \E i \in 1..Len(members) : members[i][1] = key
    THEN [i \in 1..Len(members) |->
            IF members[i][1] = key THEN <<key, value>> ELSE members[i]]
    ELSE Append(members, <<key, value>>)

\* String.prototype.startsWith
StartsWith(s, prefix) == Len(s) >= Len(prefix) /\ SubSeq(s, 1, Len(prefix)) = prefix

\* index of the first c in s at or after i, Len(s) + 1 if there is none
RECURSIVE IndexOf(_, _, _)
IndexOf(s, c, i) == IF i > Len(s) \/ s[i] = c THEN i ELSE IndexOf(s, c, i + 1)

\* String.prototype.split(c)
RECURSIVE Split(_, _)
RECURSIVE SplitAt(_, _, _)
SplitAt(s, c, i) ==
    IF i > Len(s) THEN <<s>>
    ELSE <<SubSeq(s, 1, i - 1)>> \o Split(SubSeq(s, i + 1, Len(s)), c)

Split(s, c) == SplitAt(s, c, IndexOf(s, c, 1))

\* Array.prototype.join(c)
RECURSIVE Join(_, _, _)
Join(lines, c, i) ==
    IF i > Len(lines) THEN <<>>
    ELSE (IF i > 1 THEN <<c>> ELSE <<>>) \o lines[i] \o Join(lines, c, i + 1)

(***************************************************************************)
(* JSON texts, as their tokens                                             *)
(***************************************************************************)
Punct(p) == [punct |-> p]

Literal(l) == [literal |-> l]

IsDefined(member) == member[2] # Undefined

\* JSON.stringify(v): the tokens of the text; members that are undefined are left out
RECURSIVE JSONStringify(_)
RECURSIVE StringifyItems(_, _)
RECURSIVE StringifyMembers(_, _)
StringifyItems(items, i) ==
    IF i > Len(items) THEN <<>>
    ELSE (IF i > 1 THEN <<Punct(",")>> ELSE <<>>)
             \o JSONStringify(items[i]) \o StringifyItems(items, i + 1)

StringifyMembers(members, i) ==
    IF i > Len(members) THEN <<>>
    ELSE (IF i > 1 THEN <<Punct(",")>> ELSE <<>>)
             \o <<[name |-> members[i][1]], Punct(":")>>
             \o JSONStringify(members[i][2]) \o StringifyMembers(members, i + 1)

JSONStringify(v) ==
    IF "items" \in DOMAIN v
    THEN <<Punct("[")>> \o StringifyItems(v.items, 1) \o <<Punct("]")>>
    ELSE IF "members" \in DOMAIN v
    THEN <<Punct("{")>> \o StringifyMembers(SelectSeq(v.members, IsDefined), 1)
             \o <<Punct("}")>>
    ELSE IF v = Null \/ v = Undefined THEN <<Literal("null")>>
    ELSE <<v>>

\* a parse: the value read and the index of the token after it, or a SyntaxError
Parsed(value, next) == [ok |-> TRUE, value |-> value, next |-> next]

SyntaxError == [ok |-> FALSE]

IsToken(tokens, i, token) == i <= Len(tokens) /\ tokens[i] = token

\* JSON.parse, by recursive descent over the tokens from the i-th on
RECURSIVE ParseValue(_, _)
RECURSIVE ParseItems(_, _, _)
RECURSIVE AfterItem(_, _, _)
RECURSIVE ParseMembers(_, _, _)
RECURSIVE AfterMember(_, _, _, _)
AfterItem(tokens, item, items) ==
    IF ~item.ok THEN SyntaxError
    ELSE IF IsToken(tokens, item.next, Punct(","))
    THEN ParseItems(tokens, item.next + 1, Append(items, item.value))
    ELSE IF IsToken(tokens, item.next, Punct("]"))
    THEN Parsed(Arr(Append(items, item.value)), item.next + 1)
    ELSE SyntaxError

ParseItems(tokens, i, items) == AfterItem(tokens, ParseValue(tokens, i), items)

AfterMember(tokens, key, item, members) ==
    IF ~item.ok THEN SyntaxError
    ELSE IF IsToken(tokens, item.next, Punct(","))
    THEN ParseMembers(tokens, item.next + 1, SetMember(members, key, item.value))
    ELSE IF IsToken(tokens, item.next, Punct("}"))
    THEN Parsed(Obj(SetMember(members, key, item.value)), item.next + 1)
    ELSE SyntaxError

ParseMembers(tokens, i, members) ==
    IF i <= Len(tokens) /\ "name" \in DOMAIN tokens[i] /\ IsToken(tokens, i + 1, Punct(":"))
    THEN AfterMember(tokens, tokens[i].name, ParseValue(tokens, i + 2), members)
    ELSE SyntaxError

ParseValue(tokens, i) ==
    IF i > Len(tokens) THEN SyntaxError
    ELSE IF tokens[i] = Punct("[")
    THEN (IF IsToken(tokens, i + 1, Punct("]")) THEN Parsed(Arr(<<>>), i + 2)
          ELSE ParseItems(tokens, i + 1, <<>>))
    ELSE IF tokens[i] = Punct("{")
    THEN (IF IsToken(tokens, i + 1, Punct("}")) THEN Parsed(Obj(<<>>), i + 2)
          ELSE ParseMembers(tokens, i + 1, <<>>))
    ELSE IF tokens[i] = Literal("null") THEN Parsed(Null, i + 1)
    ELSE IF "num" \in DOMAIN tokens[i] \/ "str" \in DOMAIN tokens[i]
    THEN Parsed(tokens[i], i + 1)
    ELSE SyntaxError

\* the whole text must be one value
WholeText(tokens, parsed) ==
    IF parsed.ok /\ parsed.next = Len(tokens) + 1 THEN parsed ELSE SyntaxError

JSONParse(tokens) == WholeText(tokens, ParseValue(tokens, 1))

(***************************************************************************)
(* The background script of the JSON profile table                         *)
(***************************************************************************)
HttpsPrefix == <<"h", "t", "t", "p", "s", ":", "/", "/">>

\* whether new URL(url) succeeds
IsUrl(url) == StartsWith(url, HttpsPrefix) /\ Len(url) > Len(HttpsPrefix)

\* new URL(url).host
HostOf(url) ==
    SubSeq(url, Len(HttpsPrefix) + 1, IndexOf(url, "/", Len(HttpsPrefix) + 1) - 1)

\* new URL(url).pathname: "/" when the URL has none
PathnameOf(url) ==
    IF IndexOf(url, "/", Len(HttpsPrefix) + 1) > Len(url) THEN <<"/">>
    ELSE SubSeq(url, IndexOf(url, "/", Len(HttpsPrefix) + 1), Len(url))

\* getSiteKey(url): `${protocol}//${host}${pathname}`, url itself when it is no URL
getSiteKey(url) ==
    IF IsUrl(url) THEN HttpsPrefix \o HostOf(url) \o PathnameOf(url) ELSE url

\* isValidMappingProfile(profile)
isValidMappingProfile(profile) ==
    /\ Truthy(profile)
    /\ TypeOf(profile) = "object"
    /\ TypeOf(Get(profile, "version")) = "number"
    /\ TypeOf(Get(profile, "site")) = "string"
    /\ TypeOf(Get(profile, "selectors")) = "object"
    /\ TypeOf(Get(profile, "created")) = "number"
    /\ TypeOf(Get(profile, "updated")) = "number"

\* the Error an import is rejected with: `Failed to import profiles: ${error.message}`
Rejected(parts) == [error |-> <<"Failed to import profiles: ">> \o parts]

\* mappingProfiles.clear() and one set per entry: the later entry of a key wins
RECURSIVE CacheOf(_, _)
CacheOf(entries, i) ==
    IF i > Len(entries) THEN <<>>
    ELSE CacheOf(entries, i + 1) @@ (entries[i][1] :> entries[i][2])

\* the key of the first entry the validator refuses, in the order of Object.entries
FirstInvalid(entries) ==
    entries[Find({i \in 1..Len(entries) : ~isValidMappingProfile(entries[i][2])})][1]

\* importMappingProfiles that writes the table and the cache before it validates
StoredThenValidated(profiles, store, cache) ==
    IF \E i \in 1..Len(profiles.members) : ~isValidMappingProfile(profiles.members[i][2])
    THEN [storage |-> profiles, mappingProfiles |-> CacheOf(profiles.members, 1),
          outcome |-> Rejected(<<"Invalid profile format for ",
                                 FirstInvalid(profiles.members)>>)]
    ELSE [storage |-> profiles, mappingProfiles |-> CacheOf(profiles.members, 1),
          outcome |-> [success |-> TRUE]]

\* importMappingProfiles once JSON.parse gave an object: the validation loop, then
\* storage.set and the cache
Validated(profiles, store, cache) ==
    IF \E i \in 1..Len(profiles.members) : ~isValidMappingProfile(profiles.members[i][2])
    THEN [storage |-> store, mappingProfiles |-> cache,
          outcome |-> Rejected(<<"Invalid profile format for ",
                                 FirstInvalid(profiles.members)>>)]
    ELSE [storage |-> profiles, mappingProfiles |-> CacheOf(profiles.members, 1),
          outcome |-> [success |-> TRUE]]

\* importMappingProfiles from the result of JSON.parse on: the SyntaxError of JSON.parse
\* and the TypeError of Object.entries(null) are caught and thrown again (the files of
\* the model hold an object or null)
ImportParsed(parsed, store, cache) ==
    IF ~parsed.ok
    THEN [storage |-> store, mappingProfiles |-> cache,
          outcome |-> Rejected(<<"SyntaxError">>)]
    ELSE IF "members" \notin DOMAIN parsed.value
    THEN [storage |-> store, mappingProfiles |-> cache,
          outcome |-> Rejected(<<"TypeError">>)]
    ELSE Validated(parsed.value, store, cache)

\* importMappingProfiles(jsonData)
importMappingProfiles(jsonData, store, cache) ==
    ImportParsed(JSONParse(jsonData), store, cache)

\* exportMappingProfiles()
exportMappingProfiles(store) == JSONStringify(store)

\* saveMappingProfile(profile): the table and the cache after it
saveMappingProfile(profile, store, cache) ==
    [storage |-> Obj(SetMember(store.members, getSiteKey(Get(profile, "site").str), profile)),
     mappingProfiles |-> (getSiteKey(Get(profile, "site").str) :> profile) @@ cache]

\* getCurrentMappingProfile(): null without a current tab; with one, the profile is
\* looked up inside the callback of chrome.tabs.get, whose return value goes nowhere,
\* and the function itself returns null
getCurrentMappingProfile(tabId, cache) == IF tabId = 0 THEN Null ELSE Null

(***************************************************************************)
(* The profiles and import files of the model                              *)
(***************************************************************************)
SiteA == <<"h", "t", "t", "p", "s", ":", "/", "/", "a", ".", "i", "o">>

SiteKeys == <<<<"h", "t", "t", "p", "s", ":", "/", "/", "a", ".", "i", "o", "/">>,
              <<"h", "t", "t", "p", "s", ":", "/", "/", "b", ".", "i", "o", "/">>,
              <<"h", "t", "t", "p", "s", ":", "/", "/", "c", ".", "i", "o", "/">>>>

EmailSelector == <<"#", "e", "m", "a", "i", "l">>

\* [name="email"], as ContentScript.generateSelector writes the selector of a name
NameSelector == <<"[", "n", "a", "m", "e", "=", "\"", "e", "m", "a", "i", "l", "\"", "]">>

SelectorsValue == Obj(<< <<Chars("email"), Arr(<<Str(EmailSelector)>>)>> >>)

\* an entry the validator accepts, one with its timestamp under lastUpdated, one whose
\* version is a string, and one whose selectors are null
EntryKinds ==
    {Obj(<< <<"version", Num(1)>>, <<"site", Str(SiteA)>>,
            <<"selectors", SelectorsValue>>, <<"created", Num(1)>>, <<"updated", Num(2)>> >>),
     Obj(<< <<"version", Num(1)>>, <<"site", Str(SiteA)>>,
            <<"selectors", SelectorsValue>>, <<"lastUpdated", Num(1)>> >>),
     Obj(<< <<"version", Str(<<"1">>)>>, <<"site", Str(SiteA)>>,
            <<"selectors", SelectorsValue>>, <<"created", Num(1)>>, <<"updated", Num(2)>> >>),
     Obj(<< <<"version", Num(1)>>, <<"site", Str(SiteA)>>,
            <<"selectors", Null>>, <<"created", Num(1)>>, <<"updated", Num(2)>> >>)}

\* the tables of up to MaxBatch entries, keyed by the first site keys in order
Batches ==
    UNION {{Obj([i \in 1..n |-> <<SiteKeys[i], es[i]>>]) : es \in [1..n -> EntryKinds]} :
           n \in 0..MaxBatch}

Malformed == <<Punct("{"), [name |-> SiteKeys[1]], Punct(":")>>

ImportFiles == {JSONStringify(b) : b \in Batches} \cup {Malformed, JSONStringify(Null)}

\* the profiles a SAVE_MAPPING_PROFILE message carries
SavedProfiles ==
    {e \in EntryKinds : /\ TypeOf(Get(e, "version")) = "number"
                        /\ Get(e, "selectors") # Null}

(***************************************************************************)
(* The mapping editor of the store variant: its profile, and the YAML it   *)
(* exports and imports                                                     *)
(***************************************************************************)
\* the decimal digits of a number below 10, as `${n}` writes it
DigitChars == <<"0", "1", "2", "3", "4", "5", "6", "7", "8", "9">>

NumberText(n) == <<DigitChars[n + 1]>>

\* the readings of the clock
Times == {1, 2}

\* new Date().toISOString(), for the clock reading t
toISOString(t) == <<"2", "0", "2", "6", "-", "0", "1", "-", "0">> \o NumberText(t) \o <<"T", "0", "0", ":", "0", "0", ":", "0", "0", ".", "0", "0", "0", "Z">>

\* parseInt(s) of a text that starts with a digit: the digit's value; NaN otherwise
ParseInt(s) ==
    IF Len(s) > 0 /\ \E d \in 1..10 : DigitChars[d] = s[1]
    THEN Num((CHOOSE d \in 1..10 : DigitChars[d] = s[1]) - 1)
    ELSE [nan |-> TRUE]

\* s.replace(/"/g, '')
StripQuotes(s) == SelectSeq(s, LAMBDA c : c # "\"")

\* s.replace(':', ''): without its first colon
WithoutColon(s) ==
    SubSeq(s, 1, IndexOf(s, ":", 1) - 1) \o SubSeq(s, IndexOf(s, ":", 1) + 1, Len(s))

\* the characters \w matches
WordChars ==
    {"a", "b", "c", "d", "e", "f", "g", "h", "i", "j", "k", "l", "m", "n", "o", "p", "q",
     "r", "s", "t", "u", "v", "w", "x", "y", "z", "A", "B", "C", "D", "E", "F", "G", "H",
     "I", "J", "K", "L", "M", "N", "O", "P", "Q", "R", "S", "T", "U", "V", "W", "X", "Y",
     "Z", "0", "1", "2", "3", "4", "5", "6", "7", "8", "9", "_"}

\* line.match(/^\s*\w+:$/), for a trimmed line
IsFieldLine(line) ==
    /\ Len(line) >= 2
    /\ line[Len(line)] = ":"
    /\ \A i \in 1..(Len(line) - 1) : line[i] \in WordChars

\* the lines of one field of the selectors: `  ${canonical}:` and `    - "${selector}"`
RECURSIVE SelectorLines(_, _)
SelectorLines(selectors, i) ==
    IF i > Len(selectors) THEN <<>>
    ELSE <<<<" ", " ", " ", " ", "-", " ", "\"">> \o selectors[i].str \o <<"\"">>>> \o SelectorLines(selectors, i + 1)

RECURSIVE FieldLines(_, _)
FieldLines(members, i) ==
    IF i > Len(members) THEN <<>>
    ELSE <<<<" ", " ">> \o members[i][1] \o <<":">>>>
             \o SelectorLines(members[i][2].items, 1) \o FieldLines(members, i + 1)

\* generateYAML(profile)
generateYAML(profile) ==
    Join(<<<<"v", "e", "r", "s", "i", "o", "n", ":", " ">> \o NumberText(Get(profile, "version").num),
           <<"s", "i", "t", "e", ":", " ", "\"">> \o Get(profile, "site").str \o <<"\"">>>>
         \o (IF Truthy(Get(profile, "path"))
             THEN <<<<"p", "a", "t", "h", ":", " ", "\"">> \o Get(profile, "path").str \o <<"\"">>>>
             ELSE <<>>)
         \o <<<<"s", "e", "l", "e", "c", "t", "o", "r", "s", ":">>>>
         \o FieldLines(Get(profile, "selectors").members, 1),
         "\n", 1)

\* the text after the first colon of a line, trimmed: line.split(':')[1].trim()
AfterColon(line) == Trim(Split(line, ":")[2])

\* profile.selectors[currentField].push(selector)
PushSelector(selectors, currentField, selector) ==
    SetMember(selectors, currentField,
              Arr(Append(Get(Obj(selectors), currentField).items, Str(selector))))

\* the loop of parseYAML over the lines, from the i-th on: members are the members of
\* the profile so far, selectors the members of its selectors
RECURSIVE ParseLines(_, _, _, _, _)
ParseLines(lines, i, members, selectors, currentField) ==
    IF i > Len(lines) THEN SetMember(members, "selectors", Obj(selectors))
    ELSE IF StartsWith(lines[i], <<"v", "e", "r", "s", "i", "o", "n", ":">>)
    THEN ParseLines(lines, i + 1,
                    SetMember(members, "version", ParseInt(AfterColon(lines[i]))),
                    selectors, currentField)
    ELSE IF StartsWith(lines[i], <<"s", "i", "t", "e", ":">>)
    THEN ParseLines(lines, i + 1,
                    SetMember(members, "site", Str(StripQuotes(AfterColon(lines[i])))),
                    selectors, currentField)
    ELSE IF StartsWith(lines[i], <<"p", "a", "t", "h", ":">>)
    THEN ParseLines(lines, i + 1,
                    SetMember(members, "path", Str(StripQuotes(AfterColon(lines[i])))),
                    selectors, currentField)
    ELSE IF StartsWith(lines[i], <<"s", "e", "l", "e", "c", "t", "o", "r", "s", ":">>)
    THEN ParseLines(lines, i + 1, members, selectors, currentField)
    ELSE IF IsFieldLine(lines[i])
    THEN ParseLines(lines, i + 1, members,
                    SetMember(selectors, Trim(WithoutColon(lines[i])), Arr(<<>>)),
                    Trim(WithoutColon(lines[i])))
    ELSE IF StartsWith(lines[i], <<"-", " ">>) /\ currentField # Null
    THEN ParseLines(lines, i + 1, members,
                    PushSelector(selectors, currentField,
                                 StripQuotes(Trim(SubSeq(lines[i], 3, Len(lines[i]))))),
                    currentField)
    ELSE ParseLines(lines, i + 1, members, selectors, currentField)

\* .map(l => l.trim())
TrimAll(lines) == [i \in 1..Len(lines) |-> Trim(lines[i])]

\* .filter(l => l && !l.startsWith('#'))
IsContent(line) == Len(line) > 0 /\ line[1] # "#"

\* parseYAML(yamlContent), read at time t
parseYAML(yamlContent, t) ==
    Obj(SetMember(ParseLines(SelectSeq(TrimAll(Split(yamlContent, "\n")), IsContent), 1,
                             << <<"selectors", Obj(<<>>)>> >>, <<>>, Null),
                  "lastUpdated", Str(toISOString(t))))

\* the mappings of the editor: the selectors of the profile being edited
EditorMappings ==
    {<< <<Chars("email"), Arr(<<Str(EmailSelector)>>)>> >>,
     << <<Chars("email"), Arr(<<Str(NameSelector)>>)>> >>,
     << <<Chars("first_name"), Arr(<<Str(NameSelector), Str(EmailSelector)>>)>>,
        <<Chars("email"), Arr(<<>>)>> >>}

\* the pages the editor may be open on, as new URL(currentUrl) parses them
Urls ==
    {[protocol |-> <<"h", "t", "t", "p", "s", ":">>, host |-> <<"a", ".", "i", "o">>, pathname |-> <<"/">>],
     [protocol |-> <<"h", "t", "t", "p", "s", ":">>, host |-> <<"a", ".", "i", "o">>, pathname |-> <<"/", "f">>]}

\* ContentScript.generateSelector(element): the id first, then the name (every element
\* of the model has one of them)
generateSelector(input) ==
    IF input.id # "" THEN <<"#">> \o Chars(input.id)
    ELSE IF input.name # "" THEN <<"[", "n", "a", "m", "e", "=", "\"">> \o Chars(input.name) \o <<"\"", "]">>
    ELSE <<>>

\* calculateProfileConfidence(), in hundredths
calculateProfileConfidence(editorMappings, inputs) ==
    IF Len(editorMappings) = 0 THEN 0
    ELSE (Cardinality({m \in 1..Len(editorMappings) :
              \E k \in 1..Len(editorMappings[m][2].items) :
                  \E i \in 1..Len(inputs) :
                      generateSelector(inputs[i]) = editorMappings[m][2].items[k].str}) * 100)
             \div Len(editorMappings)

\* the profile handleSaveProfile builds
EditorProfile(url, editorMappings, inputs, t) ==
    Obj(<< <<"version", Num(1)>>,
           <<"site", Str(url.protocol \o <<"/", "/">> \o url.host)>>,
           <<"path", Str(url.pathname)>>,
           <<"selectors", Obj(editorMappings)>>,
           <<"lastUpdated", Str(toISOString(t))>>,
           <<"confidence", Num(calculateProfileConfidence(editorMappings, inputs))>> >>)

\* BackgroundService.saveMappingProfile: the key is the host, with the path when the
\* profile has one
ProfileKey(profile) ==
    IF Truthy(Get(profile, "path"))
    THEN HostOf(Get(profile, "site").str) \o Get(profile, "path").str
    ELSE HostOf(Get(profile, "site").str)

\* BackgroundService.getMappingProfile(host, path): the entry under host+path, then
\* the entry under host, then null; path is Undefined when the message has none
FullKey(host, path) == IF Truthy(path) THEN host \o path.str ELSE host

\* getMappingProfile that looks under the host first
HostFirst(host, path, profiles) ==
    IF Truthy(Get(Obj(profiles), host))
    THEN [profile |-> Get(Obj(profiles), host)]
    ELSE IF Truthy(Get(Obj(profiles), FullKey(host, path)))
    THEN [profile |-> Get(Obj(profiles), FullKey(host, path))]
    ELSE [profile |-> Null]

getMappingProfile(host, path, profiles) ==
    IF Truthy(Get(Obj(profiles), FullKey(host, path)))
    THEN [profile |-> Get(Obj(profiles), FullKey(host, path))]
    ELSE IF Truthy(Get(Obj(profiles), host))
    THEN [profile |-> Get(Obj(profiles), host)]
    ELSE [profile |-> Null]

\* the profile variables before any message or editor action
InitProfileVars ==
    /\ storage = Obj(<<>>)
    /\ mappingProfiles = <<>>
    /\ message = Null
    /\ outcome = Null
    /\ profileStore = <<>>
    /\ downloaded = Null
    /\ file = Null
    /\ currentTabId = 0
    /\ serviceMessage = Null
    /\ serviceResponse = Null

(***************************************************************************)
(* The badge overlay: three content scripts attach badges to filled inputs *)
(***************************************************************************)
MaxShown == 2

MaxMarkers == 3

\* the content scripts: ContentScript, FormPilotContent with BadgeOverlay, and the
\* script whose overlayBadges wraps the element
Builds == {"content-script.ts", "overlay.ts", "part_007"}

\* the selectors results name: two of elements on the page, one of none
BadgeSelectors == {"#email", "#state", "#first_name"}

ShownLists == UNION {[1..n -> BadgeSelectors] : n \in 0..MaxShown}

NoBadges == [sel \in Selectors |-> 0]

\* badges.forEach(badge => badge.remove()); badges.clear()
clearBadges(ov) ==
    [badges |-> {},
     markers |-> [sel \in Selectors |->
                     IF sel \in ov.badges THEN ov.markers[sel] - 1 ELSE ov.markers[sel]],
     wrappers |-> ov.wrappers]

\* ContentScript.addBadge: parent.appendChild(badge); badges.set(domSelector, badge)
addBadge(ov, sel) ==
    [ov EXCEPT !.markers[sel] = @ + 1, !.badges = @ \cup {sel}]

\* ContentScript.overlayBadges(mappings), after its clearBadges()
RECURSIVE AddBadges(_, _, _, _)
AddBadges(ov, doc, shown, i) ==
    IF i > Len(shown) THEN ov
    ELSE IF QuerySelector(doc, shown[i]) = Absent THEN AddBadges(ov, doc, shown, i + 1)
    ELSE AddBadges(addBadge(ov, shown[i]), doc, shown, i + 1)

overlayBadges(ov, doc, shown) == AddBadges(clearBadges(ov), doc, shown, 1)

\* BadgeOverlay.removeBadge(selector)
removeBadge(ov, sel) ==
    IF sel \in ov.badges
    THEN [ov EXCEPT !.markers[sel] = @ - 1, !.badges = @ \ {sel}]
    ELSE ov

\* BadgeOverlay.addBadge(selector, confidence, source)
BadgeOverlayAddBadge(ov, doc, sel) ==
    IF QuerySelector(doc, sel) = Absent THEN ov
    ELSE addBadge(removeBadge(ov, sel), sel)

\* FormPilotContent.fillFields: overlay.clearAll(), then overlay.addBadge for every
\* successful result
RECURSIVE AddOverlays(_, _, _, _)
AddOverlays(ov, doc, selectors, i) ==
    IF i > Len(selectors) THEN ov
    ELSE AddOverlays(BadgeOverlayAddBadge(ov, doc, selectors[i]), doc, selectors, i + 1)

\* overlayBadges(mapping) of part_007: a new wrapper and a new badge for every
\* selector of the record that resolves
RECURSIVE WrapBadges(_, _, _, _)
WrapBadges(ov, doc, selectors, i) ==
    IF i > Len(selectors) THEN ov
    ELSE IF QuerySelector(doc, selectors[i]) = Absent THEN WrapBadges(ov, doc, selectors, i + 1)
    ELSE WrapBadges([ov EXCEPT !.markers[selectors[i]] = @ + 1,
                               !.wrappers[selectors[i]] = @ + 1],
                    doc, selectors, i + 1)

\* a text input nothing has been injected into
InitDetailVars ==
    /\ control = [type |-> "text", options |-> <<>>, value |-> "", checked |-> FALSE]
    /\ events = <<>>
    /\ injected = ""
    /\ editing = <<>>
    /\ saving = <<>>

\* no request is in flight; the active tab shows the form, which no scan has seen
InitChannelVars ==
    /\ context = 1
    /\ scanned = 0
    /\ approved = {}
    /\ page = <<>>
    /\ currentInputs = <<>>
    /\ scanTimeout = FALSE
    /\ InitDetailVars
    /\ pending = Null
    /\ channel = "idle"
    /\ received = Null

\* the overlay before any call
InitPageVars ==
    /\ InitChannelVars
    /\ build = "content-script.ts"
    /\ badges = {}
    /\ markers = NoBadges
    /\ wrappers = NoBadges
    /\ overlayCall = [op |-> "none"]

(***************************************************************************)
(* The document as nodes, and the selectors the scanners generate          *)
(***************************************************************************)
MaxNodes == 2

\* the inputs a page may hold, one for every way the generators branch: with an id,
\* with a name (a radio button of a group), with a class, with none of them; each in
\* the first or the second fieldset of the body
InputKinds ==
    {[tag |-> "input", id |-> a.id, name |-> a.name, className |-> a.className,
      type |-> a.type, parent |-> p] :
        a \in {[id |-> "a", name |-> "", className |-> "", type |-> "text"],
               [id |-> "", name |-> "gender", className |-> "", type |-> "radio"],
               [id |-> "", name |-> "", className |-> "c", type |-> "text"],
               [id |-> "", name |-> "", className |-> "", type |-> "text"]},
        p \in {1, 2}}

\* the nodes that are no input and hold none: an empty form, a div
OtherKinds ==
    {[tag |-> t, id |-> "", name |-> "", className |-> "", type |-> "", parent |-> 1] :
        t \in {"form", "div"}}

NodeKinds == InputKinds \cup OtherKinds

\* element.matches('input, select, textarea')
IsInput(node) == node.tag = "input"

\* siblings.indexOf(element) + 1 among the siblings of the same tag, and among all
SameTagBefore(nodes, i) ==
    Cardinality({j \in 1..i : /\ nodes[j].parent = nodes[i].parent
                              /\ nodes[j].tag = nodes[i].tag})

SiblingsBefore(nodes, i) ==
    Cardinality({j \in 1..i : nodes[j].parent = nodes[i].parent})

SameTagSiblings(nodes, i) ==
    Cardinality({j \in 1..Len(nodes) : /\ nodes[j].parent = nodes[i].parent
                                       /\ nodes[j].tag = nodes[i].tag})

\* whether the node at j matches the selector: #id, [name="n"], .class,
\* tag:nth-of-type(n), tag[name="n"], tag[name][type], and the path
\* fieldset:nth-child(p) > tag.class:nth-child(n)
Matches(nodes, j, selector) ==
    CASE selector.kind = "id" -> nodes[j].id = selector.id
      [] selector.kind = "name" -> nodes[j].name = selector.name
      [] selector.kind = "class" -> nodes[j].className = selector.className
      [] selector.kind = "nthOfType" ->
            nodes[j].tag = selector.tag /\ SameTagBefore(nodes, j) = selector.n
      [] selector.kind = "tagName" ->
            nodes[j].tag = selector.tag /\ nodes[j].name = selector.name
      [] selector.kind = "attributes" ->
            /\ nodes[j].tag = selector.tag
            /\ selector.name = "" \/ nodes[j].name = selector.name
            /\ selector.type = "" \/ nodes[j].type = selector.type
      [] selector.kind = "path" ->
            /\ nodes[j].parent = selector.parent
            /\ nodes[j].tag = selector.tag
            /\ selector.className = "" \/ nodes[j].className = selector.className
            /\ selector.nthChild = 0 \/ SiblingsBefore(nodes, j) = selector.nthChild

\* document.querySelectorAll(selector): the positions of the nodes that match
QuerySelectorAll(nodes, selector) == {j \in 1..Len(nodes) : Matches(nodes, j, selector)}

\* ContentScript.generateSelector(element, index)
ContentScriptSelector(nodes, i) ==
    IF nodes[i].id # "" THEN [kind |-> "id", id |-> nodes[i].id]
    ELSE IF nodes[i].name # "" THEN [kind |-> "name", name |-> nodes[i].name]
    ELSE IF /\ nodes[i].className # ""
            /\ Cardinality(QuerySelectorAll(nodes, [kind |-> "class",
                                                    className |-> nodes[i].className])) = 1
    THEN [kind |-> "class", className |-> nodes[i].className]
    ELSE [kind |-> "nthOfType", tag |-> nodes[i].tag, n |-> SameTagBefore(nodes, i)]

\* DOMScanner.generateSelector(element)
DOMScannerSelector(nodes, i) ==
    IF nodes[i].id # "" THEN [kind |-> "id", id |-> nodes[i].id]
    ELSE IF /\ nodes[i].name # ""
            /\ Cardinality(QuerySelectorAll(nodes, [kind |-> "tagName", tag |-> nodes[i].tag,
                                                    name |-> nodes[i].name])) = 1
    THEN [kind |-> "tagName", tag |-> nodes[i].tag, name |-> nodes[i].name]
    ELSE [kind |-> "path", parent |-> nodes[i].parent, tag |-> nodes[i].tag,
          className |-> nodes[i].className,
          nthChild |-> IF SameTagSiblings(nodes, i) > 1 THEN SiblingsBefore(nodes, i) ELSE 0]

\* generateCSSSelector(element)
generateCSSSelector(element) ==
    IF element.id # "" THEN [kind |-> "id", id |-> element.id]
    ELSE IF element.className # "" THEN [kind |-> "class", className |-> element.className]
    ELSE [kind |-> "attributes", tag |-> element.tag, name |-> element.name,
          type |-> element.type]

\* the selector the content script of the build generates for the node at i
SelectorOf(b, nodes, i) ==
    CASE b = "content-script.ts" -> ContentScriptSelector(nodes, i)
      [] b = "overlay.ts" -> DOMScannerSelector(nodes, i)
      [] b = "part_007" -> generateCSSSelector(nodes[i])

\* scanPage(): one input per input element, with its selector; node is the element it
\* was generated from (the input keeps its id, name and type), element its position
RECURSIVE ScanNodes(_, _, _)
ScanNodes(b, nodes, i) ==
    IF i > Len(nodes) THEN <<>>
    ELSE (IF IsInput(nodes[i])
          THEN <<[selector |-> SelectorOf(b, nodes, i), node |-> nodes[i], element |-> i]>>
          ELSE <<>>) \o ScanNodes(b, nodes, i + 1)

(***************************************************************************)
(* The planning machine: one document, one fill pass at a time             *)
(***************************************************************************)
\* the slider the user may set the threshold with runs from SLIDER_MIN up
ThresholdSettings == {SLIDER_MIN}

Init ==
    /\ parseResult = Null
    /\ latestDoc = Null
    /\ domInputs = <<>>
    /\ currentMappingProfile = Null
    /\ autoFillThreshold = 0
    /\ document \in TextDocuments
    /\ mappings = <<>>
    /\ results = <<>>
    /\ fillResults = <<>>
    /\ phase = "idle"
    /\ InitProfileVars
    /\ InitPageVars

\* a document has been parsed: the background stores it and the sidebar shows it
\* (one document per session: a later upload reaches no state the first could not)
UploadComplete(pr) ==
    /\ phase = "idle"
    /\ parseResult = Null
    /\ parseResult' = pr
    /\ latestDoc' = pr
    /\ UNCHANGED <<profileVars, contextVars>>
    /\ UNCHANGED <<domInputs, currentMappingProfile, autoFillThreshold, document,
                   mappings, results, fillResults, phase>>

\* store.scanCurrentPage: the scan, then the profile the background answers with
ScanCurrentPage(response) ==
    /\ phase = "idle"
    /\ domInputs' = scanPage(document)
    /\ currentMappingProfile' = IF response # Null THEN response ELSE currentMappingProfile
    /\ scanned' = context
    /\ UNCHANGED <<profileVars, context, approved, domVars, detailVars>>
    /\ UNCHANGED <<parseResult, latestDoc, autoFillThreshold, document,
                   mappings, results, fillResults, phase>>

\* SettingsPanel.saveSettings
SaveSettings(threshold) ==
    /\ phase = "idle"
    /\ autoFillThreshold' = threshold
    /\ UNCHANGED <<profileVars, contextVars>>
    /\ UNCHANGED <<parseResult, latestDoc, domInputs, currentMappingProfile, document,
                   mappings, results, fillResults, phase>>

\* the selectors of a plan, and of the results that succeeded
MappedSelectors(plan) == [i \in 1..Len(plan) |-> plan[i].domSelector]

SucceededSelectors(filled) ==
    [i \in 1..Len(SelectSeq(filled, LAMBDA r : r.success)) |->
        SelectSeq(filled, LAMBDA r : r.success)[i].selector]

\* store.fillPage: the plan, then FILL_FIELDS (ContentScript.fillFields on the page),
\* then OVERLAY_BADGES with the same plan (ContentScript.overlayBadges)
FillPage ==
    /\ phase = "idle"
    /\ parseResult # Null
    /\ Len(domInputs) > 0
    /\ mappings' = generateMappings(parseResult, domInputs, currentMappingProfile)
    /\ \E done \in {fillFields(document, mappings', latestDoc, 1)} :
          /\ document' = done.doc
          /\ results' = done.results
          /\ \E ov \in {overlayBadges([badges |-> badges, markers |-> markers,
                                        wrappers |-> wrappers],
                                       done.doc, MappedSelectors(mappings'))} :
                /\ badges' = ov.badges
                /\ markers' = ov.markers
    /\ overlayCall' = [op |-> "show", results |-> MappedSelectors(mappings')]
    /\ phase' = "fillPage"
    /\ UNCHANGED <<build, wrappers, jsonVars, editorVars, channelVars, contextVars>>
    /\ UNCHANGED <<parseResult, latestDoc, domInputs, currentMappingProfile,
                   autoFillThreshold, fillResults>>

\* App.handleFillForm: fillForm, then FormPilotContent.fillFields on the page: the
\* overlay is cleared, the fields are filled, every result that succeeded gets a badge
HandleFillForm ==
    /\ phase = "idle"
    /\ parseResult # Null
    /\ currentMappingProfile # Null
    /\ \E done \in {fill(document, domInputs, parseResult.fields,
                         FlatMapping(currentMappingProfile.selectors),
                         Threshold(autoFillThreshold))} :
          /\ document' = done.doc
          /\ fillResults' = done.results
          /\ \E ov \in {AddOverlays(clearBadges([badges |-> badges, markers |-> markers,
                                                  wrappers |-> wrappers]),
                                     done.doc, SucceededSelectors(done.results), 1)} :
                /\ badges' = ov.badges
                /\ markers' = ov.markers
          /\ overlayCall' = [op |-> "show", results |-> SucceededSelectors(done.results)]
    /\ phase' = "fillForm"
    /\ UNCHANGED <<build, wrappers, jsonVars, editorVars, channelVars, contextVars>>
    /\ UNCHANGED <<parseResult, latestDoc, domInputs, currentMappingProfile,
                   autoFillThreshold, mappings, results>>

\* the page is reloaded: its elements are fresh and carry no badge, the pass and its
\* results are over
Reload ==
    /\ phase # "idle"
    /\ document' = [sel \in Selectors |->
                        IF document[sel] = Absent THEN Absent ELSE FreshElement]
    /\ mappings' = <<>>
    /\ results' = <<>>
    /\ fillResults' = <<>>
    /\ phase' = "idle"
    /\ badges' = {}
    /\ markers' = NoBadges
    /\ overlayCall' = [op |-> "none"]
    /\ UNCHANGED <<build, wrappers, jsonVars, editorVars, channelVars, contextVars>>
    /\ UNCHANGED <<parseResult, latestDoc, domInputs, currentMappingProfile,
                   autoFillThreshold>>

Next ==
    \/ \E pr \in ParseResults : UploadComplete(pr)
    \/ \E response \in Profiles \cup {Null} : ScanCurrentPage(response)
    \/ \E threshold \in ThresholdSettings : SaveSettings(threshold)
    \/ FillPage
    \/ HandleFillForm
    \/ Reload

Spec == Init /\ [][Next]_vars

(***************************************************************************)
(* The match machine: pages whose labels give every band of scores, and    *)
(* documents whose names are matched against them                          *)
(***************************************************************************)
MatchSelectors == {"#first_name", "#email", "#tax", "#blank"}

MatchDocuments ==
    {[sel \in Selectors |-> IF sel \in present THEN FreshElement ELSE Absent] :
        present \in SUBSET MatchSelectors}

MatchFieldKinds ==
    {[canonical |-> c, candidates |-> <<Candidate(c, k)>>, chosen |-> Candidate(c, k)] :
        c \in {"first_name", "email", LongCanonical}, k \in Confidences}

MatchParseResults ==
    {[fields |-> fs] : fs \in UNION {[1..n -> MatchFieldKinds] : n \in 1..MaxFields}}

InitMatch ==
    /\ parseResult = Null
    /\ latestDoc = Null
    /\ domInputs = <<>>
    /\ currentMappingProfile = Null
    /\ autoFillThreshold = 0
    /\ document \in MatchDocuments
    /\ mappings = <<>>
    /\ results = <<>>
    /\ fillResults = <<>>
    /\ phase = "idle"
    /\ InitProfileVars
    /\ InitPageVars

NextMatch ==
    \/ \E pr \in MatchParseResults : UploadComplete(pr)
    \/ \E response \in {Null, [selectors |-> [c \in {"email"} |-> <<"#email">>]]} :
          ScanCurrentPage(response)
    \/ FillPage
    \/ Reload

SpecMatch == InitMatch /\ [][NextMatch]_vars

(***************************************************************************)
(* The fill machine: a form page whose elements may go between scan and    *)
(* fill                                                                    *)
(***************************************************************************)
InitFill ==
    /\ parseResult = Null
    /\ latestDoc = Null
    /\ domInputs = <<>>
    /\ currentMappingProfile = Null
    /\ autoFillThreshold = 0
    /\ document = FormDocument
    /\ mappings = <<>>
    /\ results = <<>>
    /\ fillResults = <<>>
    /\ phase = "idle"
    /\ InitProfileVars
    /\ InitPageVars

\* the page removes one of its elements after the scan
RemoveElement(sel) ==
    /\ phase = "idle"
    /\ Len(domInputs) > 0
    /\ document[sel] # Absent
    /\ document' = [document EXCEPT ![sel] = Absent]
    /\ UNCHANGED <<profileVars, contextVars>>
    /\ UNCHANGED <<parseResult, latestDoc, domInputs, currentMappingProfile,
                   autoFillThreshold, mappings, results, fillResults, phase>>

NextFill ==
    \/ \E pr \in FormParseResults : UploadComplete(pr)
    \/ \E response \in {FormProfile, Null} : ScanCurrentPage(response)
    \/ \E sel \in Selectors : RemoveElement(sel)
    \/ FillPage
    \/ HandleFillForm

SpecFill == InitFill /\ [][NextFill]_vars

(***************************************************************************)
(* The profile machine: the background script of the JSON profile table    *)
(* and the messages it handles                                             *)
(***************************************************************************)
InitProfiles ==
    /\ parseResult = Null
    /\ latestDoc = Null
    /\ domInputs = <<>>
    /\ currentMappingProfile = Null
    /\ autoFillThreshold = 0
    /\ document = FormDocument
    /\ mappings = <<>>
    /\ results = <<>>
    /\ fillResults = <<>>
    /\ phase = "idle"
    /\ InitProfileVars
    /\ InitPageVars

\* chrome.runtime.onInstalled: initializeStorage() sets the table to {}
InitializeStorage ==
    /\ storage' = Obj(<<>>)
    /\ message' = Null
    /\ UNCHANGED <<mappingProfiles, outcome, currentTabId>>
    /\ UNCHANGED <<editorVars, pageVars, contextVars>>
    /\ UNCHANGED planVars

\* the URL each tab of the browser shows
TabUrl(tabId) == IF tabId = 1 THEN SiteA ELSE SiteKeys[tabId]

\* tabs.onActivated, or tabs.onUpdated with status complete: the tab becomes the current
\* one and loadMappingProfile(tab.url) copies its profile from the table to the cache
LoadMappingProfile(tabId) ==
    /\ currentTabId' = tabId
    /\ mappingProfiles' =
          IF Truthy(Get(storage, getSiteKey(TabUrl(tabId))))
          THEN (getSiteKey(TabUrl(tabId)) :> Get(storage, getSiteKey(TabUrl(tabId))))
                   @@ mappingProfiles
          ELSE mappingProfiles
    /\ message' = Null
    /\ UNCHANGED <<storage, outcome>>
    /\ UNCHANGED <<editorVars, pageVars, contextVars>>
    /\ UNCHANGED planVars

\* onMessage, SAVE_MAPPING_PROFILE: saveMappingProfile(message.profile)
SaveMappingProfile(profile) ==
    /\ message' = [type |-> "SAVE_MAPPING_PROFILE", profile |-> profile]
    /\ \E saved \in {saveMappingProfile(profile, storage, mappingProfiles)} :
          /\ storage' = saved.storage
          /\ mappingProfiles' = saved.mappingProfiles
    /\ outcome' = [success |-> TRUE]
    /\ UNCHANGED currentTabId
    /\ UNCHANGED <<editorVars, pageVars, contextVars>>
    /\ UNCHANGED planVars

\* onMessage, EXPORT_MAPPING_PROFILES: the response carries the data
ExportMappingProfiles ==
    /\ message' = [type |-> "EXPORT_MAPPING_PROFILES"]
    /\ outcome' = [data |-> exportMappingProfiles(storage)]
    /\ UNCHANGED <<storage, mappingProfiles, currentTabId>>
    /\ UNCHANGED <<editorVars, pageVars, contextVars>>
    /\ UNCHANGED planVars

\* onMessage, IMPORT_MAPPING_PROFILES: importMappingProfiles(message.data); the outcome
\* is the promise it returns, resolved or rejected with the Error
ImportMappingProfiles(jsonData) ==
    /\ message' = [type |-> "IMPORT_MAPPING_PROFILES", data |-> jsonData]
    /\ \E imported \in {importMappingProfiles(jsonData, storage, mappingProfiles)} :
          /\ storage' = imported.storage
          /\ mappingProfiles' = imported.mappingProfiles
          /\ outcome' = imported.outcome
    /\ UNCHANGED currentTabId
    /\ UNCHANGED <<editorVars, pageVars, contextVars>>
    /\ UNCHANGED planVars

NextProfiles ==
    \/ InitializeStorage
    \/ \E tabId \in {1} : LoadMappingProfile(tabId)
    \/ \E profile \in SavedProfiles : SaveMappingProfile(profile)
    \/ ExportMappingProfiles
    \/ \E jsonData \in ImportFiles : ImportMappingProfiles(jsonData)
    \/ "data" \in DOMAIN outcome /\ ImportMappingProfiles(outcome.data)

SpecProfiles == InitProfiles /\ [][NextProfiles]_vars

(***************************************************************************)
(* The background machine: tabs come and go, profiles are saved and asked  *)
(* for                                                                     *)
(***************************************************************************)
\* the profiles saved for the page of one tab or the other
TabProfiles ==
    {Obj(SetMember(profile.members, "site", Str(TabUrl(tabId)))) :
        profile \in SavedProfiles, tabId \in {1, 2}}

\* onMessage, GET_MAPPING_PROFILE: the response carries getCurrentMappingProfile()
GetMappingProfile ==
    /\ message' = [type |-> "GET_MAPPING_PROFILE"]
    /\ outcome' = [profile |-> getCurrentMappingProfile(currentTabId, mappingProfiles)]
    /\ UNCHANGED <<storage, mappingProfiles, currentTabId>>
    /\ UNCHANGED <<editorVars, pageVars, contextVars>>
    /\ UNCHANGED planVars

NextBackground ==
    \/ InitializeStorage
    \/ \E tabId \in {1, 2} : LoadMappingProfile(tabId)
    \/ \E profile \in TabProfiles : SaveMappingProfile(profile)
    \/ GetMappingProfile

SpecBackground == InitProfiles /\ [][NextBackground]_vars

(***************************************************************************)
(* The editor machine: the mapping editor of the store variant saves,      *)
(* exports and imports the profile of the page                             *)
(***************************************************************************)
\* the files a user may pick that the editor did not write
HandWritten ==
    {Join(<<<<"#", " ", "p", "r", "o", "f", "i", "l", "e", " ", "o", "f", " ", "a", ".", "i", "o">>,
            <<"v", "e", "r", "s", "i", "o", "n", ":", " ", "1">>,
            <<"s", "i", "t", "e", ":", " ", "a", ".", "i", "o">>,
            <<"s", "e", "l", "e", "c", "t", "o", "r", "s", ":">>,
            <<" ", " ", "e", "m", "a", "i", "l", ":">>,
            <<" ", " ", " ", " ", "-", " ", "#", "e", "m", "a", "i", "l">>>>, "\n", 1)}

\* MappingEditor.handleSaveProfile: the profile goes to the background and to the store
HandleSaveProfile(url, editorMappings, t) ==
    /\ \E profile \in {EditorProfile(url, editorMappings, domInputs, t)} :
          /\ profileStore' = SetMember(profileStore, ProfileKey(profile), profile)
          /\ currentMappingProfile' = profile
    /\ serviceMessage' = [type |-> "SAVE_MAPPING_PROFILE"]
    /\ serviceResponse' = [success |-> TRUE]
    /\ file' = Null
    /\ UNCHANGED downloaded
    /\ UNCHANGED <<jsonVars, pageVars, contextVars>>
    /\ UNCHANGED <<parseResult, latestDoc, domInputs, autoFillThreshold, document,
                   mappings, results, fillResults, phase>>

\* MappingEditor.handleExportProfile: the download happens when new URL(profile.site)
\* does not throw
HandleExportProfile ==
    /\ currentMappingProfile # Null
    /\ downloaded' = IF IsUrl(Get(currentMappingProfile, "site").str)
                     THEN generateYAML(currentMappingProfile)
                     ELSE downloaded
    /\ file' = Null
    /\ UNCHANGED <<profileStore, serviceMessage, serviceResponse>>
    /\ UNCHANGED <<jsonVars, pageVars, contextVars>>
    /\ UNCHANGED planVars

\* MappingEditor.handleImportProfile, reader.onload: the file picked is read at time t
HandleImportProfile(yamlContent, t) ==
    /\ file' = yamlContent
    /\ currentMappingProfile' = parseYAML(yamlContent, t)
    /\ UNCHANGED <<profileStore, downloaded, serviceMessage, serviceResponse>>
    /\ UNCHANGED <<jsonVars, pageVars, contextVars>>
    /\ UNCHANGED <<parseResult, latestDoc, domInputs, autoFillThreshold, document,
                   mappings, results, fillResults, phase>>

NextEditor ==
    \/ ScanCurrentPage(Null)
    \/ \E url \in Urls, editorMappings \in EditorMappings, t \in Times :
          HandleSaveProfile(url, editorMappings, t)
    \/ HandleExportProfile
    \/ \E yamlContent \in HandWritten, t \in Times : HandleImportProfile(yamlContent, t)
    \/ \E t \in Times : downloaded # Null /\ HandleImportProfile(downloaded, t)

SpecEditor == InitProfiles /\ [][NextEditor]_vars

(***************************************************************************)
(* The resolve machine: BackgroundService stores profiles under host+path  *)
(* or host and answers GET_MAPPING_PROFILE                                 *)
(***************************************************************************)
\* profiles without a path, as a SAVE_MAPPING_PROFILE message may carry them
HostProfiles ==
    {Obj(<< <<"version", Num(1)>>, <<"site", Str(SiteA)>>,
            <<"selectors", Obj(editorMappings)>>,
            <<"lastUpdated", Str(toISOString(1))>> >>) :
        editorMappings \in EditorMappings}

\* BackgroundService, SAVE_MAPPING_PROFILE: saveMappingProfile(message.profile)
HandleSaveMappingProfile(profile) ==
    /\ profileStore' = SetMember(profileStore, ProfileKey(profile), profile)
    /\ serviceMessage' = [type |-> "SAVE_MAPPING_PROFILE"]
    /\ serviceResponse' = [success |-> TRUE]
    /\ UNCHANGED <<downloaded, file>>
    /\ UNCHANGED <<jsonVars, pageVars, contextVars>>
    /\ UNCHANGED planVars

\* BackgroundService, GET_MAPPING_PROFILE: getMappingProfile(message.host, message.path)
HandleGetMappingProfile(host, path) ==
    /\ serviceMessage' = [type |-> "GET_MAPPING_PROFILE", host |-> host, path |-> path]
    /\ serviceResponse' = getMappingProfile(host, path, profileStore)
    /\ UNCHANGED <<profileStore, downloaded, file>>
    /\ UNCHANGED <<jsonVars, pageVars, contextVars>>
    /\ UNCHANGED planVars

\* the hosts and paths of the pages a profile is asked for
Hosts == {HostOf(SiteA), HostOf(SiteKeys[2])}

Paths == {Str(<<"/">>), Str(<<"/", "f">>), Str(<<"/", "g">>), Undefined}

NextResolve ==
    \/ \E url \in Urls, editorMappings \in EditorMappings :
          HandleSaveProfile(url, editorMappings, 1)
    \/ \E profile \in HostProfiles : HandleSaveMappingProfile(profile)
    \/ \E host \in Hosts, path \in Paths : HandleGetMappingProfile(host, path)

SpecResolve == InitProfiles /\ [][NextResolve]_vars

(***************************************************************************)
(* The scan machine: the page adds and removes nodes, the content script   *)
(* scans it on request and, where it observes the document, after changes  *)
(***************************************************************************)
InitScan ==
    /\ parseResult = Null
    /\ latestDoc = Null
    /\ domInputs = <<>>
    /\ currentMappingProfile = Null
    /\ autoFillThreshold = 0
    /\ document = FormDocument
    /\ mappings = <<>>
    /\ results = <<>>
    /\ fillResults = <<>>
    /\ phase = "idle"
    /\ InitProfileVars
    /\ build \in Builds
    /\ badges = {}
    /\ markers = NoBadges
    /\ wrappers = NoBadges
    /\ overlayCall = [op |-> "none"]
    /\ InitChannelVars

\* the MutationObserver callback for a mutation with the node among its addedNodes:
\* observeDOM sets the timer anew when the node is or holds a form, input, select or
\* textarea; observeFormChanges scans at once when it is or holds an input, select or
\* textarea; ContentScript observes nothing
Observed(node) ==
    CASE build = "overlay.ts" ->
            /\ scanTimeout' = (scanTimeout \/ node.tag \in {"form", "input"})
            /\ UNCHANGED currentInputs
      [] build = "part_007" ->
            /\ currentInputs' = IF IsInput(node) THEN ScanNodes(build, page', 1)
                                 ELSE currentInputs
            /\ UNCHANGED scanTimeout
      [] OTHER -> UNCHANGED <<currentInputs, scanTimeout>>

\* the page appends a node
AddNode(node) ==
    /\ Len(page) < MaxNodes
    /\ page' = Append(page, node)
    /\ Observed(node)
    /\ UNCHANGED <<context, scanned, approved, detailVars>>
    /\ UNCHANGED <<planVars, profileVars>>

\* the page removes a node: both observers look at addedNodes only
RemoveNode(i) ==
    /\ i \in 1..Len(page)
    /\ page' = SubSeq(page, 1, i - 1) \o SubSeq(page, i + 1, Len(page))
    /\ UNCHANGED <<currentInputs, scanTimeout>>
    /\ UNCHANGED <<context, scanned, approved, detailVars>>
    /\ UNCHANGED <<planVars, profileVars>>

\* SCAN_PAGE, or the scan on load: scanPage()
ScanDocument ==
    /\ currentInputs' = ScanNodes(build, page, 1)
    /\ UNCHANGED <<page, scanTimeout>>
    /\ UNCHANGED <<context, scanned, approved, detailVars>>
    /\ UNCHANGED <<planVars, profileVars>>

\* the timer of observeDOM runs out: scanPage()
ScanTimeout ==
    /\ scanTimeout
    /\ scanTimeout' = FALSE
    /\ currentInputs' = ScanNodes(build, page, 1)
    /\ UNCHANGED page
    /\ UNCHANGED <<context, scanned, approved, detailVars>>
    /\ UNCHANGED <<planVars, profileVars>>

NextScan ==
    \/ \E node \in NodeKinds : AddNode(node)
    \/ \E i \in 1..MaxNodes : RemoveNode(i)
    \/ ScanDocument
    \/ ScanTimeout

SpecScan == InitScan /\ [][NextScan]_vars

\* a timer that is set runs out
SpecWatch == InitScan /\ [][NextScan]_vars /\ WF_vars(ScanTimeout)

(***************************************************************************)
(* The review machine: the user approves fields between the upload and the *)
(* fill                                                                    *)
(***************************************************************************)
\* FieldCard.handleApprove: approveField(field.canonical), for a field the list shows
ApproveField(canonical) ==
    /\ phase = "idle"
    /\ parseResult # Null
    /\ \E i \in 1..Len(parseResult.fields) : parseResult.fields[i].canonical = canonical
    /\ parseResult' = approveField(parseResult, canonical)
    /\ approved' = approved \cup {canonical}
    /\ UNCHANGED <<context, scanned, domVars, detailVars>>
    /\ UNCHANGED profileVars
    /\ UNCHANGED <<latestDoc, domInputs, currentMappingProfile, autoFillThreshold,
                   document, mappings, results, fillResults, phase>>

NextReview ==
    \/ \E pr \in {r \in ParseResults : Len(r.fields) = 1} : UploadComplete(pr)
    \/ \E response \in {Null} : ScanCurrentPage(response)
    \/ \E canonical \in Canonicals : ApproveField(canonical)
    \/ FillPage
    \/ Reload

SpecReview == Init /\ [][NextReview]_vars

(***************************************************************************)
(* The context machine: the active tab or its URL changes between the scan *)
(* and the fill                                                            *)
(***************************************************************************)
\* the page of the other context: a sign-in form with an #email input of its own
OtherDocument ==
    [sel \in Selectors |-> IF sel \in {"#email", "#first_name"} THEN FreshElement ELSE Absent]

Pages == <<FormDocument, OtherDocument>>

\* tabs.onActivated / tabs.onUpdated with a url: the sidebar is notified (TAB_CHANGED,
\* URL_CHANGED), the store keeps its domInputs and its parse result
ContextChanges(c) ==
    /\ phase = "idle"
    /\ c # context
    /\ context' = c
    /\ document' = Pages[c]
    /\ UNCHANGED <<scanned, approved, domVars, detailVars>>
    /\ UNCHANGED profileVars
    /\ UNCHANGED <<parseResult, latestDoc, domInputs, currentMappingProfile,
                   autoFillThreshold, mappings, results, fillResults, phase>>

NextContext ==
    \/ \E pr \in {r \in FormParseResults : Len(r.fields) = 1} : UploadComplete(pr)
    \/ \E response \in {FormProfile, Null} : ScanCurrentPage(response)
    \/ \E c \in 1..Len(Pages) : ContextChanges(c)
    \/ FillPage
    \/ HandleFillForm
    \/ Reload

SpecContext == InitFill /\ [][NextContext]_vars

(***************************************************************************)
(* The channel machine: a caller sends a request to the background script, *)
(* whose onMessage listener answers it, passes it on to the tab, or keeps  *)
(* the channel open                                                        *)
(***************************************************************************)
\* the requests of the model: one of every branch of the listener's switch
Requests ==
    {[type |-> "GET_MAPPING_PROFILE"], [type |-> "EXPORT_MAPPING_PROFILES"],
     [type |-> "SCAN_PAGE"], [type |-> "FILL_FIELDS"], [type |-> "PING"]}
    \cup {[type |-> "SAVE_MAPPING_PROFILE", profile |-> profile] : profile \in SavedProfiles}
    \cup {[type |-> "IMPORT_MAPPING_PROFILES", data |-> jsonData] :
             jsonData \in {Malformed, JSONStringify(Obj(<<>>))}}

\* chrome.runtime.sendMessage(request, callback)
SendMessage(request) ==
    /\ channel \in {"idle", "closed"}
    /\ pending' = request
    /\ channel' = "sent"
    /\ received' = Null
    /\ UNCHANGED <<overlayVars, planVars, jsonVars, editorVars, contextVars>>

\* the listener has called sendResponse(response), or has not and keeps the channel
\* in the state given
Answered(response) ==
    /\ outcome' = response
    /\ received' = [response |-> response]
    /\ channel' = "closed"

Unanswered(state) ==
    /\ channel' = state
    /\ UNCHANGED <<outcome, received>>

\* the onMessage listener of the background script, one branch of its switch per type
Listener ==
    /\ channel = "sent"
    /\ message' = pending
    /\ CASE pending.type = "GET_MAPPING_PROFILE" ->
              /\ Answered([profile |-> getCurrentMappingProfile(currentTabId, mappingProfiles)])
              /\ UNCHANGED <<storage, mappingProfiles>>
         [] pending.type = "SAVE_MAPPING_PROFILE" ->
              /\ \E saved \in {saveMappingProfile(pending.profile, storage, mappingProfiles)} :
                    /\ storage' = saved.storage
                    /\ mappingProfiles' = saved.mappingProfiles
              /\ Answered([success |-> TRUE])
         [] pending.type = "EXPORT_MAPPING_PROFILES" ->
              /\ Answered([data |-> exportMappingProfiles(storage)])
              /\ UNCHANGED <<storage, mappingProfiles>>
         [] pending.type = "IMPORT_MAPPING_PROFILES" ->
              \E imported \in {importMappingProfiles(pending.data, storage, mappingProfiles)} :
                 /\ storage' = imported.storage
                 /\ mappingProfiles' = imported.mappingProfiles
                 /\ IF "error" \in DOMAIN imported.outcome
                    THEN Unanswered("open")
                    ELSE Answered(imported.outcome)
         [] pending.type \in {"SCAN_PAGE", "FILL_FIELDS"} ->
              /\ Unanswered(IF currentTabId # 0 THEN "forwarded" ELSE "open")
              /\ UNCHANGED <<storage, mappingProfiles>>
         [] OTHER ->
              /\ Answered([error |-> "Unknown message type"])
              /\ UNCHANGED <<storage, mappingProfiles>>
    /\ UNCHANGED <<pending, currentTabId>>
    /\ UNCHANGED <<overlayVars, planVars, editorVars, contextVars>>

\* what chrome.tabs.sendMessage hands its callback: the answer of the content script's
\* listener, or undefined when the tab has nothing listening
TabResponses(request) ==
    {Undefined,
     IF request.type = "SCAN_PAGE" THEN [inputs |-> scanPage(document)] ELSE [success |-> TRUE]}

\* the callback of chrome.tabs.sendMessage: sendResponse(response)
TabAnswers ==
    /\ channel = "forwarded"
    /\ \E response \in TabResponses(pending) : Answered(response)
    /\ UNCHANGED <<pending, message, storage, mappingProfiles, currentTabId>>
    /\ UNCHANGED <<overlayVars, planVars, editorVars, contextVars>>

\* the browser closes the port of a channel the listener keeps open without a
\* sendResponse to come, if and when it collects the sendResponse function: the
\* caller's callback runs with runtime.lastError set
PortClosed ==
    /\ channel = "open"
    /\ channel' = "closed"
    /\ received' = [lastError |-> TRUE]
    /\ UNCHANGED <<pending, jsonVars>>
    /\ UNCHANGED <<overlayVars, planVars, editorVars, contextVars>>

NextChannel ==
    \/ \E request \in Requests : SendMessage(request)
    \/ Listener
    \/ TabAnswers
    \/ PortClosed
    \/ \E tabId \in {1} : LoadMappingProfile(tabId)

\* the browser runs the listener of a message sent and the callback of a message
\* passed on to the tab; nothing in the code makes it collect a sendResponse
SpecChannel ==
    InitProfiles /\ [][NextChannel]_vars /\ WF_vars(Listener) /\ WF_vars(TabAnswers)

(***************************************************************************)
(* The overlay machine: badges are shown and cleared on the form's page    *)
(***************************************************************************)
InitOverlay ==
    /\ parseResult = Null
    /\ latestDoc = Null
    /\ domInputs = <<>>
    /\ currentMappingProfile = Null
    /\ autoFillThreshold = 0
    /\ document = FormDocument
    /\ mappings = <<>>
    /\ results = <<>>
    /\ fillResults = <<>>
    /\ phase = "idle"
    /\ InitProfileVars
    /\ InitChannelVars
    /\ build \in Builds
    /\ badges = {}
    /\ markers = NoBadges
    /\ wrappers = NoBadges
    /\ overlayCall = [op |-> "none"]

\* the overlay takes the state ov after a show of the results
Shown(ov, shown) ==
    /\ \A sel \in BadgeSelectors : ov.markers[sel] <= MaxMarkers
    /\ badges' = ov.badges
    /\ markers' = ov.markers
    /\ wrappers' = ov.wrappers
    /\ overlayCall' = [op |-> "show", results |-> shown]
    /\ UNCHANGED <<build, planVars, jsonVars, editorVars, channelVars, contextVars>>

\* ContentScript, OVERLAY_BADGES: overlayBadges(message.mappings)
OverlayBadges(shown) ==
    /\ build = "content-script.ts"
    /\ Shown(overlayBadges([badges |-> badges, markers |-> markers, wrappers |-> wrappers],
                            document, shown), shown)

\* ContentScript, CLEAR_BADGES: clearBadges()
ClearBadges ==
    /\ build = "content-script.ts"
    /\ \E ov \in {clearBadges([badges |-> badges, markers |-> markers, wrappers |-> wrappers])} :
          /\ badges' = ov.badges
          /\ markers' = ov.markers
    /\ overlayCall' = [op |-> "clear"]
    /\ UNCHANGED <<build, wrappers, planVars, jsonVars, editorVars, channelVars, contextVars>>

\* FormPilotContent.fillFields, its overlay: shown are the selectors of the results
\* that succeeded
FillFieldsOverlay(shown) ==
    /\ build = "overlay.ts"
    /\ Shown(AddOverlays(clearBadges([badges |-> badges, markers |-> markers,
                                       wrappers |-> wrappers]),
                          document, shown, 1), shown)

\* part_007, OVERLAY_BADGES: overlayBadges(msg.payload), a record keyed by selector
OverlayBadgesRecord(shown) ==
    /\ build = "part_007"
    /\ \A i, j \in 1..Len(shown) : shown[i] = shown[j] => i = j
    /\ Shown(WrapBadges([badges |-> badges, markers |-> markers, wrappers |-> wrappers],
                         document, shown, 1), shown)

NextOverlay ==
    \/ \E shown \in ShownLists : OverlayBadges(shown)
    \/ ClearBadges
    \/ \E shown \in ShownLists : FillFieldsOverlay(shown)
    \/ \E shown \in ShownLists : OverlayBadgesRecord(shown)

SpecOverlay == InitOverlay /\ [][NextOverlay]_vars

(***************************************************************************)
(* Claims about the fill plan                                              *)
(***************************************************************************)
Fields == IF parseResult = Null THEN <<>> ELSE parseResult.fields

ScannedSelectors == {domInputs[i].selector : i \in 1..Len(domInputs)}

\* the results of the filler variant that put a value into an element
Filled == {i \in 1..Len(fillResults) : fillResults[i].success}

\* C1: no two mappings of one fill plan have the same domSelector, in the plan of
\* generateMappings and in what FormFiller.fill fills in one pass
C1_NoSharedSelector ==
    /\ \A i, j \in 1..Len(mappings) :
          i # j => mappings[i].domSelector # mappings[j].domSelector
    /\ \A i, j \in Filled :
          i # j => fillResults[i].selector # fillResults[j].selector

\* C2: no two mappings of one fill plan have the same fieldCanonical, in the plan of
\* generateMappings and in what FormFiller.fill fills in one pass
C2_OneMappingPerField ==
    /\ \A i, j \in 1..Len(mappings) :
          i # j => mappings[i].fieldCanonical # mappings[j].fieldCanonical
    /\ \A i, j \in Filled :
          i # j => fillResults[i].field # fillResults[j].field

\* C3: every FillMapping generateMappings emits has confidence >= MEDIUM (0.80)
C3_ConfidenceFloor ==
    \A i \in 1..Len(mappings) : mappings[i].confidence >= MEDIUM

\* C3 witness: a plan holding a profile match and a semantic (exact) match
C3_Witness ==
    /\ phase = "fillPage"
    /\ \E i \in 1..Len(mappings) : mappings[i].method = "profile_match"
    /\ \E i \in 1..Len(mappings) : mappings[i].method = "exact_match"

\* the profile lists, for the field's name, a selector that a scanned input has
ProfileResolves(field) ==
    /\ currentMappingProfile # Null
    /\ field.canonical \in DOMAIN currentMappingProfile.selectors
    /\ \E k \in 1..Len(currentMappingProfile.selectors[field.canonical]) :
          currentMappingProfile.selectors[field.canonical][k] \in ScannedSelectors

Heals(field) ==
    /\ currentMappingProfile # Null
    /\ field.canonical \in DOMAIN currentMappingProfile.selectors
    /\ Len(currentMappingProfile.selectors[field.canonical]) = 2
    /\ document[currentMappingProfile.selectors[field.canonical][1]] = Absent
    /\ document[currentMappingProfile.selectors[field.canonical][2]] # Absent

\* C5: a field (confident enough to be filled) whose first profile selector is absent
\* from the page and whose second is present is filled through the second one: the
\* store's plan maps it there by profile_match, and the filler fills it there
C5_LaterSelectorUsed ==
    \A n \in 1..Len(Fields) :
        (/\ Heals(Fields[n])
         /\ Fields[n].chosen # NoChosen
         /\ Fields[n].chosen.confidence >= 92)
        =>
        LET later == currentMappingProfile.selectors[Fields[n].canonical][2]
        IN  /\ phase = "fillPage" =>
                \E i \in 1..Len(mappings) :
                    /\ mappings[i].fieldCanonical = Fields[n].canonical
                    /\ mappings[i].domSelector = later
                    /\ mappings[i].method = "profile_match"
                    /\ mappings[i].confidence = Min(Fields[n].chosen.confidence, 95)
            /\ phase = "fillForm" =>
                \E i \in Filled :
                    /\ fillResults[i].field = Fields[n].canonical
                    /\ fillResults[i].selector = later

\* C6: a field whose chosen candidate has confidence below 0.80 is in no plan, and its
\* value is written into no element
C6_LowConfidenceExcluded ==
    /\ \A i \in 1..Len(mappings) :
          \E n \in 1..Len(Fields) :
              /\ Fields[n].canonical = mappings[i].fieldCanonical
              /\ Fields[n].chosen # NoChosen
              /\ Fields[n].chosen.confidence >= 80
    /\ \A i \in Filled : fillResults[i].source.confidence >= 80
    /\ \A sel \in Selectors :
          (document[sel] # Absent /\ document[sel].filled) => document[sel].confidence >= 80

(***************************************************************************)
(* Claims about the fill executor                                          *)
(***************************************************************************)
\* the field has a candidate to fill with
HasCandidate(canonical) ==
    \E n \in 1..Len(Fields) :
        Fields[n].canonical = canonical /\ CandidateOf(Fields[n]) # NoChosen

\* C7: the executor returns exactly one result per mapping it was given, in order, and a
\* mapping whose selector has no element in the document gets success = FALSE with the
\* error "Element not found" (ContentScript.fillFields over the plan, FormFiller.fill
\* over the mapping entries of the document's fields)
C7_OneResultPerMapping ==
    /\ phase = "fillPage" =>
          /\ Len(results) = Len(mappings)
          /\ \A i \in 1..Len(mappings) :
                /\ results[i].selector = mappings[i].domSelector
                /\ document[mappings[i].domSelector] = Absent =>
                      /\ ~results[i].success
                      /\ "error" \in DOMAIN results[i]
                      /\ results[i].error = "Element not found"
    /\ phase = "fillForm" =>
          \A c \in DOMAIN FlatMapping(currentMappingProfile.selectors) :
              HasCandidate(c) =>
                  LET sel == FlatMapping(currentMappingProfile.selectors)[c]
                      mine == {i \in 1..Len(fillResults) :
                                  fillResults[i].field = c /\ fillResults[i].selector = sel}
                  IN  /\ Cardinality(mine) = 1
                      /\ document[sel] = Absent =>
                            \A i \in mine : /\ ~fillResults[i].success
                                            /\ fillResults[i].error = "Element not found"

\* the element of the selector shows the target value
HoldsTarget(sel, target) ==
    /\ document[sel] # Absent
    /\ CASE ElementInfo(sel).type = "select" ->
                \E i \in 1..Len(Options) : Options[i].value = document[sel].value
         [] ElementInfo(sel).type = "radio" -> document[sel].checked
         [] ElementInfo(sel).type = "checkbox" -> TRUE
         [] OTHER -> document[sel].value = target

\* C8: every fill that did not set its element is reported with success = FALSE and an
\* error string, and success = TRUE is reported only for an element that was set (read
\* off the document for the selectors only one fill of the pass went to)
C8_FailuresReported ==
    /\ \A i \in 1..Len(mappings) :
          \E k \in 1..Len(results) : results[k].selector = mappings[i].domSelector
    /\ \A k \in 1..Len(results) :
          ~results[k].success => ("error" \in DOMAIN results[k] /\ results[k].error # "")
    /\ \A k \in 1..Len(fillResults) :
          ~fillResults[k].success => fillResults[k].error # ""
    /\ \A k \in 1..Len(fillResults) :
          (/\ fillResults[k].success
           /\ \A j \in 1..Len(fillResults) :
                 j # k => fillResults[j].selector # fillResults[k].selector)
          => HoldsTarget(fillResults[k].selector, fillResults[k].source.value)

(***************************************************************************)
(* Claims about export and import of profiles                              *)
(***************************************************************************)
\* whether the editor's profile is one the background has stored
IsStored(profile) ==
    \E i \in 1..Len(profileStore) : profileStore[i][2] = profile

\* the fields of a stored profile: version, site, optional path, selectors, timestamp
ProfileFields == {"version", "site", "path", "selectors", "lastUpdated"}

\* the same value, or none, under each of these fields
SameProfile(a, b) == \A name \in ProfileFields : Get(a, name) = Get(b, name)

\* C9: exporting the stored profiles and importing the exported data restores the
\* same profiles: when the file the editor reads is the export of the valid stored
\* profile it holds, the import gives a profile equal to that profile.
C9_RoundTrip ==
    [][(/\ currentMappingProfile # Null
        /\ IsStored(currentMappingProfile)
        /\ file' # Null
        /\ file' = generateYAML(currentMappingProfile))
       => SameProfile(currentMappingProfile', currentMappingProfile)]_vars

\* whether the text parses to a table with an entry the validation refuses
HasInvalidEntry(parsed) ==
    /\ parsed.ok
    /\ "members" \in DOMAIN parsed.value
    /\ \E i \in 1..Len(parsed.value.members) :
          ~isValidMappingProfile(parsed.value.members[i][2])

\* whether the error names the key of the first entry the validation refuses
NamesOffendingKey(result, entries) ==
    /\ "error" \in DOMAIN result
    /\ \E i \in 1..Len(entries) :
          /\ ~isValidMappingProfile(entries[i][2])
          /\ \A j \in 1..(i - 1) : isValidMappingProfile(entries[j][2])
          /\ result.error = <<"Failed to import profiles: ",
                              "Invalid profile format for ", entries[i][1]>>

\* C10: an import whose batch holds at least one invalid entry is rejected as a
\* whole with an error naming the offending key, and leaves the persisted profile
\* table and the in-memory cache as they were before the import.
C10_InvalidImportRejected ==
    [][\A parsed \in (IF "data" \in DOMAIN message' THEN {JSONParse(message'.data)} ELSE {}) :
          HasInvalidEntry(parsed)
          => /\ NamesOffendingKey(outcome', parsed.value.members)
             /\ storage' = storage
             /\ mappingProfiles' = mappingProfiles]_vars

\* an import of a valid entry followed by an invalid one has been rejected while the
\* table and the cache held profiles
C10_Witness ==
    /\ "data" \in DOMAIN message
    /\ "error" \in DOMAIN outcome
    /\ Len(storage.members) > 0
    /\ DOMAIN mappingProfiles # {}
    /\ \E parsed \in {JSONParse(message.data)} :
          /\ parsed.ok
          /\ "members" \in DOMAIN parsed.value
          /\ Len(parsed.value.members) = 2
          /\ isValidMappingProfile(parsed.value.members[1][2])
          /\ ~isValidMappingProfile(parsed.value.members[2][2])

(***************************************************************************)
(* Claims about saved profiles                                             *)
(***************************************************************************)
\* the profile the table holds for the page of the current tab
StoredForTab == Get(storage, getSiteKey(TabUrl(currentTabId)))

\* C11: after a profile is saved for a page URL, loading the profile for that same
\* URL returns a profile whose selectors equal the saved ones: whenever the
\* background has answered GET_MAPPING_PROFILE while the table holds a profile for
\* the page of the current tab, the answer carries a profile with those selectors.
C11_SavedProfileLoads ==
    (/\ message = [type |-> "GET_MAPPING_PROFILE"]
     /\ currentTabId # 0
     /\ Truthy(StoredForTab))
    => /\ outcome.profile # Null
       /\ Get(outcome.profile, "selectors") = Get(StoredForTab, "selectors")

\* whether the table of BackgroundService holds an entry under the key
Holds(key) == \E i \in 1..Len(profileStore) : profileStore[i][1] = key

Entry(key) == profileStore[CHOOSE i \in 1..Len(profileStore) : profileStore[i][1] = key][2]

\* C12: resolve(host, path) returns the profile stored under the host+path key when
\* one exists, otherwise the profile stored under the host-only key, otherwise null;
\* what it returns is one stored entry, never a merge of the two.
C12_LookupOrder ==
    "host" \in DOMAIN serviceMessage
    => \E host \in {serviceMessage.host}, path \in {serviceMessage.path} :
          serviceResponse.profile =
              IF path # Undefined /\ Holds(host \o path.str) THEN Entry(host \o path.str)
              ELSE IF Holds(host) THEN Entry(host)
              ELSE Null

\* a page was asked for whose host+path has no entry while its host has one, with
\* another path of that host stored as well, and the host's entry was returned
C12_Witness ==
    /\ "host" \in DOMAIN serviceMessage
    /\ serviceMessage.path # Undefined
    /\ ~Holds(serviceMessage.host \o serviceMessage.path.str)
    /\ Holds(serviceMessage.host)
    /\ \E i \in 1..Len(profileStore) : Len(profileStore[i][1]) > Len(serviceMessage.host)
    /\ serviceResponse.profile = Entry(serviceMessage.host)

\* C13: calling the overlay's show with the same results twice in a row leaves the
\* document with the same markers, one per selector and no extra wrapper, as calling
\* it once.
C13_ShowTwice ==
    [][(/\ overlayCall.op = "show"
        /\ overlayCall'.op = "show"
        /\ overlayCall'.results = overlayCall.results)
       => /\ markers' = markers
          /\ wrappers' = wrappers]_vars

\* C14: after clear() no marker attached by an earlier show() remains in the document
\* and the overlay tracks no marker, whatever shows came before it.
C14_ClearRemovesAll ==
    overlayCall.op = "clear"
    => /\ \A sel \in BadgeSelectors : markers[sel] = 0
       /\ badges = {}

\* C15: every request sent over the channel eventually completes for the caller with
\* a response or a failure; no branch of the listener leaves the caller waiting.
C15_RequestsComplete == (channel = "sent") ~> (channel = "closed")

\* C16: a fill plan is never injected into a document context other than the one its
\* DomInputs were scanned in: when the active tab or its URL has changed since the
\* scan, the fill mutates no element of the new context.
C16_NoStaleFill ==
    [][(phase = "idle" /\ phase' # "idle" /\ document' # document)
       => scanned = context]_vars

\* whether the field's chosen confidence is in the review band [0.80, 0.92)
NeedsReview(field) ==
    /\ field.chosen # NoChosen
    /\ field.chosen.confidence >= MEDIUM
    /\ field.chosen.confidence < HIGH

\* C17: a field whose chosen confidence is in [0.80, 0.92) is not filled before the
\* user has reviewed it, and once the user has approved it a fill pass with a matching
\* input fills it.
C17_ApprovedIsFilled ==
    [][(phase = "idle" /\ phase' = "fillPage")
       => \A i \in 1..Len(parseResult.fields) :
             \E field \in {parseResult.fields[i]} :
                NeedsReview(field)
                => /\ field.canonical \notin approved
                      => \A j \in 1..Len(mappings') :
                            mappings'[j].fieldCanonical # field.canonical
                   /\ (/\ field.canonical \in approved
                       /\ MappingFor(field, domInputs, currentMappingProfile) # <<>>)
                      => \E j \in 1..Len(mappings') :
                            mappings'[j].fieldCanonical = field.canonical]_vars

\* whether the step is a save for the site of that key
SavesOver(key) ==
    /\ "profile" \in DOMAIN message'
    /\ getSiteKey(Get(message'.profile, "site").str) = key

\* C18: a saved mapping profile is removed from the persistent store only by an
\* explicit user action: after lifecycle events, tab events and saves for other sites
\* every profile saved before is still stored unchanged.
C18_ProfilesKept ==
    [][\A i \in 1..Len(storage.members) :
          \/ SavesOver(storage.members[i][1])
          \/ Get(storage', storage.members[i][1]) = storage.members[i][2]]_vars

\* C19: for every scan result, each DomInput's selector resolves to exactly one
\* element of the scanned document, the one it was generated from; so no two
\* DomInputs of one scan share a selector.
C19_SelectorsResolveUniquely ==
    [][currentInputs' # currentInputs
       => \A k \in 1..Len(currentInputs') :
             QuerySelectorAll(page', currentInputs'[k].selector)
                 = {currentInputs'[k].element}]_vars

\* the elements the stored inputs were generated from
ScannedElements == [k \in 1..Len(currentInputs) |-> currentInputs[k].node]

\* C20: whenever a mutation adds or removes a node that is or holds an input, a
\* re-scan eventually runs so that the stored DomInputs reflect the current document.
C20_RescanFollows ==
    (build # "content-script.ts" /\ ScannedElements # SelectSeq(page, IsInput))
    ~> (ScannedElements = SelectSeq(page, IsInput))

\* the highest of the scores
MaxScore(scores) ==
    CHOOSE v \in {scores[i] : i \in DOMAIN scores} : \A i \in DOMAIN scores : scores[i] <= v

\* the mappings of the plan for the name
MappingsOf(canonical) == {j \in 1..Len(mappings) : mappings[j].fieldCanonical = canonical}

MaxOptions == 2

OptionStrings == {"CA", "California", "Male"}

\* the <option> lists of a select
OptionLists ==
    UNION {[1..n -> [value : OptionStrings, text : OptionStrings]] : n \in 1..MaxOptions}

\* a control as the page loads it
Controls ==
    {[type |-> t, options |-> <<>>, value |-> "", checked |-> FALSE] :
        t \in {"text", "checkbox", "radio"}}
    \cup {[type |-> "select", options |-> o, value |-> "", checked |-> FALSE] :
            o \in OptionLists}

InjectValues == {"CA", "California", "male", "yes"}

\* a fill of ContentScript that returned false did nothing to the element
Done(filled, trace) ==
    [control |-> filled.element, events |-> IF filled.success THEN trace ELSE <<>>]

\* ContentScript.fillSelectElement, fillCheckboxElement, fillRadioElement and
\* fillTextElement with their dispatchEvent calls: fillTextElement clears the value,
\* sets it and dispatches input, change and blur; the others assign and dispatch change
ContentScriptInjection(element, value) ==
    CASE element.type = "select" ->
            Done(fillSelectElement(element, element.options, value), <<"set", "change">>)
      [] element.type = "checkbox" ->
            Done(fillCheckboxElement(element, value), <<"set", "change">>)
      [] element.type = "radio" ->
            Done(fillRadioElement(element, value), <<"set", "change">>)
      [] OTHER ->
            Done(fillTextElement(element, value), <<"set", "set", "input", "change", "blur">>)

\* FormFiller.triggerInputEvents: input, change, and for an HTMLInputElement the native
\* value setter called with the element's own value ("reset": the value stays what it
\* is), then input again
triggerInputEvents(element) ==
    <<"input", "change">> \o (IF element.type # "select" THEN <<"reset", "input">> ELSE <<>>)

\* the switch of FormFiller.fillField on one element, then triggerInputEvents
FillerInjection(element, value) ==
    CASE element.type = "checkbox" ->
            [control |-> [element EXCEPT !.checked =
                            Lower(value) = Chars("true") \/ Lower(value) = Chars("yes")
                                \/ value = "1"],
             events |-> <<"set">> \o triggerInputEvents(element)]
      [] element.type = "radio" ->
            [control |-> [element EXCEPT !.checked = @ \/ RadioValue = value],
             events |-> (IF RadioValue = value THEN <<"set">> ELSE <<>>)
                            \o triggerInputEvents(element)]
      [] element.type = "select" ->
            [control |-> [element EXCEPT !.value =
                            SelectValue(element.options, FillerOption(element.options, value))],
             events |-> <<"set">> \o triggerInputEvents(element)]
      [] OTHER ->
            [control |-> [element EXCEPT !.value = value],
             events |-> <<"set">> \o triggerInputEvents(element)]

\* options.find(o => o.value === value || o.text === value)
ValueOrText(options, value) ==
    Find({i \in 1..Len(options) : options[i].value = value \/ options[i].text = value})

\* the body of the loop of fillFields of that build: a select gets the value of the
\* option found, if one is found, and no event; any other element gets the value and
\* the events input and change
BareInjection(element, value) ==
    IF element.type = "select"
    THEN IF ValueOrText(element.options, value) # 0
         THEN [control |-> [element EXCEPT !.value =
                              element.options[ValueOrText(element.options, value)].value],
               events |-> <<"set">>]
         ELSE [control |-> element, events |-> <<>>]
    ELSE [control |-> [element EXCEPT !.value = value],
          events |-> <<"set", "input", "change">>]

\* the injection of the build the page runs
Injection(script, element, value) ==
    CASE script = "content-script.ts" -> ContentScriptInjection(element, value)
      [] script = "overlay.ts" -> FillerInjection(element, value)
      [] OTHER -> BareInjection(element, value)

\* the content script fills the control with a value
InjectValue(value) ==
    /\ \E done \in {Injection(build, control, value)} :
          /\ control' = done.control
          /\ events' = done.events
    /\ injected' = value
    /\ UNCHANGED <<context, scanned, approved, domVars, editVars, raceVars>>
    /\ UNCHANGED <<planVars, profileVars>>

\* the page shows another control in its place
ShowControl(c) ==
    /\ control' = c
    /\ events' = <<>>
    /\ injected' = ""
    /\ UNCHANGED <<context, scanned, approved, domVars, editVars, raceVars>>
    /\ UNCHANGED <<planVars, profileVars>>

NextInject ==
    \/ \E value \in InjectValues : InjectValue(value)
    \/ \E c \in Controls : ShowControl(c)

SpecInject == InitScan /\ [][NextInject]_vars

\* the options an injected value equals the value of, equals the text of without
\* regard to case, and is related to by containment of the lower-cased texts
ByValue(options, value) == {i \in 1..Len(options) : options[i].value = value}

ByText(options, value) == {i \in 1..Len(options) : Lower(options[i].text) = Lower(value)}

ByContainment(options, value) ==
    {i \in 1..Len(options) :
        \/ Includes(Lower(options[i].text), Lower(value))
        \/ Includes(Lower(value), Lower(options[i].text))}

\* the first set of the three that has a member
FirstNonEmpty(a, b, c) == IF a # {} THEN a ELSE IF b # {} THEN b ELSE c

\* C22: a fill of a select picks the first option whose value equals the target; only
\* if there is none, the first option whose text equals it case-insensitively; only if
\* there is none either, the first option related to it by substring containment.
C22_SelectOrder ==
    (control.type = "select" /\ injected # "")
    => \E hits \in {FirstNonEmpty(ByValue(control.options, injected),
                                  ByText(control.options, injected),
                                  ByContainment(control.options, injected))} :
          hits # {} => control.value = control.options[Find(hits)].value

\* the control has been mutated by the last injection
Mutated == \E i \in 1..Len(events) : events[i] = "set"

\* C23: on every injection path (text, select, checkbox, radio) a change event is
\* dispatched after the mutation of the value or the checked state, never before it
\* and never omitted.
C23_ChangeFollows ==
    Mutated
    => \E j \in 1..Len(events) :
          /\ events[j] = "change"
          /\ \E i \in 1..(j - 1) : events[i] = "set"
          /\ \A k \in 1..(j - 1) : events[k] # "change"

(***************************************************************************)
(* The edit machine: the user adds selectors to and removes selectors from *)
(* the lists of the mapping editor, which shows the profile's confidence   *)
(***************************************************************************)
MaxSelectors == 2

\* the names the editor lists and the selectors a user may pick: of the two inputs of
\* the page, and of no element
EditCanonicals == {Chars("email"), Chars("first_name")}

EditSelectors == {EmailSelector, NameSelector, <<"#", "x">>}

\* prev[canonical] || []
ItemsOf(members, canonical) ==
    IF \E i \in 1..Len(members) : members[i][1] = canonical
    THEN members[Find({i \in 1..Len(members) : members[i][1] = canonical})][2].items
    ELSE <<>>

\* MappingEditor.handleAddMapping
HandleAddMapping(canonical, selector) ==
    /\ Len(ItemsOf(editing, canonical)) < MaxSelectors
    /\ editing' = SetMember(editing, canonical,
                            Arr(Append(ItemsOf(editing, canonical), Str(selector))))
    /\ UNCHANGED <<context, scanned, approved, domVars, elementVars, raceVars>>
    /\ UNCHANGED <<planVars, profileVars>>

\* MappingEditor.handleRemoveMapping
HandleRemoveMapping(canonical, selector) ==
    /\ editing' = SetMember(editing, canonical,
                            Arr(SelectSeq(ItemsOf(editing, canonical),
                                          LAMBDA item : item # Str(selector))))
    /\ UNCHANGED <<context, scanned, approved, domVars, elementVars, raceVars>>
    /\ UNCHANGED <<planVars, profileVars>>

NextEdit ==
    \/ ScanCurrentPage(Null)
    \/ \E canonical \in EditCanonicals, selector \in EditSelectors :
          HandleAddMapping(canonical, selector)
    \/ \E canonical \in EditCanonicals, selector \in EditSelectors :
          HandleRemoveMapping(canonical, selector)

SpecEdit == InitProfiles /\ [][NextEdit]_vars

\* the lists of the editor that hold a selector, and those of them whose first selector
\* is the selector of a scanned input
WithSelector == {m \in 1..Len(editing) : Len(editing[m][2].items) > 0}

FirstMatches ==
    {m \in WithSelector :
        \E i \in 1..Len(domInputs) : generateSelector(domInputs[i]) = editing[m][2].items[1].str}

\* C24: the profile confidence shown equals the number of mapped fields whose first
\* selector matches a scanned DomInput, divided by the number of fields with at least
\* one selector, after any sequence of add-selector and remove-selector edits,
\* including edits that leave a field with an empty selector list.
C24_ProfileConfidence ==
    WithSelector # {}
    => calculateProfileConfidence(editing, domInputs) =
          (Cardinality(FirstMatches) * 100) \div Cardinality(WithSelector)

(***************************************************************************)
(* The field machine: the user edits and approves the fields of the parsed *)
(* document in the field list                                              *)
(***************************************************************************)
MaxCandidates == 2

EditedCanonicals == {"first_name", "email"}

\* the j-th candidate of a field: the text found at the j-th place of the document
CandidateAt(j, k) ==
    [value |-> (CASE j = 1 -> "John" [] j = 2 -> "John Doe" [] OTHER -> "j@x.io"),
     confidence |-> k, page |-> j, bbox |-> <<j, j, 10, 2>>]

CandidateLists ==
    UNION {{[j \in 1..n |-> CandidateAt(j, ks[j])] : ks \in [1..n -> {70, 95}]} :
              n \in 0..MaxCandidates}

\* fields as the parser returns them: with candidates and none chosen, or with one
\* candidate that is chosen
EditedFieldKinds ==
    {[canonical |-> c, candidates |-> cs, chosen |-> NoChosen] :
        c \in EditedCanonicals, cs \in CandidateLists}
    \cup
    {[canonical |-> c, candidates |-> <<CandidateAt(1, k)>>, chosen |-> CandidateAt(1, k)] :
        c \in EditedCanonicals, k \in {70, 95}}

\* documents of two fields, of one name or of two
EditedParseResults == {[fields |-> <<a, b>>] : a, b \in EditedFieldKinds}

\* what the user may type into the edit box of a field card
EditValues == {"Jane", ""}

\* FieldCard.handleSave: updateFieldValue(field.canonical, editValue), for a field the
\* list shows
UpdateFieldValue(canonical, value) ==
    /\ phase = "idle"
    /\ parseResult # Null
    /\ \E i \in 1..Len(parseResult.fields) : parseResult.fields[i].canonical = canonical
    /\ parseResult' = updateFieldValue(parseResult, canonical, value)
    /\ UNCHANGED contextVars
    /\ UNCHANGED profileVars
    /\ UNCHANGED <<latestDoc, domInputs, currentMappingProfile, autoFillThreshold,
                   document, mappings, results, fillResults, phase>>

NextFields ==
    \/ \E pr \in EditedParseResults : UploadComplete(pr)
    \/ \E canonical \in EditedCanonicals : ApproveField(canonical)
    \/ \E canonical \in EditedCanonicals, value \in EditValues :
          UpdateFieldValue(canonical, value)

SpecFields == InitProfiles /\ [][NextFields]_vars

\* whether the k-th candidate is the earliest of those with the highest confidence
EarliestBest(candidates, k) ==
    /\ \A j \in 1..Len(candidates) : candidates[j].confidence <= candidates[k].confidence
    /\ \A j \in 1..(k - 1) : candidates[j].confidence < candidates[k].confidence

\* what approve(canonical) is to have done to the fields
Approved(canonical) ==
    /\ Len(parseResult'.fields) = Len(parseResult.fields)
    /\ \A i \in 1..Len(parseResult.fields) :
          \E before \in {parseResult.fields[i]}, after \in {parseResult'.fields[i]} :
             IF /\ before.canonical = canonical
                /\ before.chosen = NoChosen
                /\ Len(before.candidates) > 0
             THEN /\ \E k \in 1..Len(before.candidates) :
                        /\ EarliestBest(before.candidates, k)
                        /\ after.chosen = before.candidates[k]
                  /\ after.candidates = before.candidates
                  /\ after.canonical = before.canonical
             ELSE after = before

\* C25: approve(canonical) on a field with no chosen candidate sets chosen to the
\* candidate with the greatest confidence, the earliest one on ties; on any other
\* field it changes nothing.
C25_ApproveChoosesBest ==
    [][\A canonical \in EditedCanonicals : ApproveField(canonical) => Approved(canonical)]_vars

\* an approved field whose two first candidates tie for the highest confidence and
\* whose chosen candidate is the first of them
C25_Witness ==
    /\ parseResult # Null
    /\ \E i \in 1..Len(parseResult.fields) :
          \E field \in {parseResult.fields[i]} :
             /\ field.canonical \in approved
             /\ Len(field.candidates) >= 2
             /\ field.candidates[1].confidence = field.candidates[2].confidence
             /\ EarliestBest(field.candidates, 1)
             /\ field.chosen = field.candidates[1]

\* what setValue(canonical, value) is to have done to the fields
ValueSet(canonical, value) ==
    /\ Len(parseResult'.fields) = Len(parseResult.fields)
    /\ \A i \in 1..Len(parseResult.fields) :
          \E before \in {parseResult.fields[i]}, after \in {parseResult'.fields[i]} :
             IF before.canonical = canonical /\ before.chosen # NoChosen
             THEN /\ after.chosen.value = value
                  /\ after.chosen.confidence = before.chosen.confidence
                  /\ after.chosen.page = before.chosen.page
                  /\ after.chosen.bbox = before.chosen.bbox
                  /\ after.candidates = before.candidates
                  /\ after.canonical = before.canonical
             ELSE after = before

\* C26: setValue(canonical, value) sets the chosen value of that field and keeps the
\* chosen candidate's confidence, page and bounding box; the candidate list stays as
\* it is and every other field stays as it is.
C26_SetValueFrame ==
    [][\A canonical \in EditedCanonicals, value \in EditValues :
          UpdateFieldValue(canonical, value) => ValueSet(canonical, value)]_vars

\* a field whose chosen value is the typed one, at the confidence and place of its
\* second candidate, beside a field of another name whose chosen value is the parser's
C26_Witness ==
    /\ parseResult # Null
    /\ \E i, j \in 1..Len(parseResult.fields) :
          /\ parseResult.fields[i].chosen # NoChosen
          /\ parseResult.fields[i].chosen.value = "Jane"
          /\ parseResult.fields[i].chosen.confidence = 95
          /\ parseResult.fields[i].chosen.page = 2
          /\ parseResult.fields[i].candidates[2].value = "John Doe"
          /\ parseResult.fields[j].canonical # parseResult.fields[i].canonical
          /\ parseResult.fields[j].chosen # NoChosen
          /\ parseResult.fields[j].chosen.value = "John"

\* the selectors whose fill succeeded in the pass that ran
Succeeded ==
    {results[i].selector : i \in {j \in 1..Len(results) : results[j].success}}
    \cup {fillResults[i].selector : i \in Filled}

\* C27: after a fill pass a marker is present for a selector only if the fill of that
\* selector succeeded in this pass: none for a failed fill, none left from an earlier
\* pass.
C27_MarkersOfSuccess ==
    phase # "idle" => \A sel \in Selectors : markers[sel] > 0 => sel \in Succeeded

(***************************************************************************)
(* The save machine: saveMappingProfile is an async function; the calls of *)
(* several SAVE_MAPPING_PROFILE messages interleave at its awaits          *)
(***************************************************************************)
MaxSaves == 2

\* onMessage, SAVE_MAPPING_PROFILE: saveMappingProfile(profile) runs up to its first
\* await: the cache has the profile, chrome.storage.local.get is under way
SaveBegins(profile) ==
    /\ Len(saving) < MaxSaves
    /\ message' = [type |-> "SAVE_MAPPING_PROFILE", profile |-> profile]
    /\ mappingProfiles' = (getSiteKey(Get(profile, "site").str) :> profile) @@ mappingProfiles
    /\ saving' = Append(saving, [profile |-> profile, at |-> "get", profiles |-> <<>>])
    /\ UNCHANGED <<storage, outcome, currentTabId>>
    /\ UNCHANGED <<editorVars, pageVars>>
    /\ UNCHANGED <<context, scanned, approved, domVars, elementVars, editVars>>
    /\ UNCHANGED planVars

\* chrome.storage.local.get resolves for the k-th call: profiles is the table as it is
\* now, profiles[siteKey] = profile; chrome.storage.local.set is under way
StorageGot(k) ==
    /\ k \in 1..Len(saving)
    /\ saving[k].at = "get"
    /\ saving' = [saving EXCEPT
                     ![k].at = "set",
                     ![k].profiles = SetMember(storage.members,
                                               getSiteKey(Get(saving[k].profile, "site").str),
                                               saving[k].profile)]
    /\ UNCHANGED <<jsonVars, editorVars, pageVars>>
    /\ UNCHANGED <<context, scanned, approved, domVars, elementVars, editVars>>
    /\ UNCHANGED planVars

\* chrome.storage.local.set resolves for the k-th call: the table is the call's
\* profiles, the message is answered
StorageSet(k) ==
    /\ k \in 1..Len(saving)
    /\ saving[k].at = "set"
    /\ storage' = Obj(saving[k].profiles)
    /\ saving' = [saving EXCEPT ![k].at = "done"]
    /\ outcome' = [success |-> TRUE]
    /\ UNCHANGED <<mappingProfiles, message, currentTabId>>
    /\ UNCHANGED <<editorVars, pageVars>>
    /\ UNCHANGED <<context, scanned, approved, domVars, elementVars, editVars>>
    /\ UNCHANGED planVars

NextSaves ==
    \/ \E profile \in TabProfiles : SaveBegins(profile)
    \/ \E k \in 1..MaxSaves : StorageGot(k)
    \/ \E k \in 1..MaxSaves : StorageSet(k)

SpecSaves == InitProfiles /\ [][NextSaves]_vars

\* the site key the k-th save writes under
SavedKey(k) == getSiteKey(Get(saving[k].profile, "site").str)

\* C28: two saves for different site keys whose asynchronous storage reads and writes
\* interleave both persist: once both are complete the table holds a profile under
\* each of the two keys.
C28_BothPersist ==
    \A i, j \in 1..Len(saving) :
        (/\ saving[i].at = "done"
         /\ saving[j].at = "done"
         /\ SavedKey(i) # SavedKey(j))
        => /\ Get(storage, SavedKey(i)) = saving[i].profile
           /\ Get(storage, SavedKey(j)) = saving[j].profile

(***************************************************************************)
(* The site machine: the sidebar scans the page of one site, then of       *)
(* another; the background answers with the profile stored for the site    *)
(***************************************************************************)
\* the profile GET_MAPPING_PROFILE resolves for the page of a context: the form's
\* site has one, the other site has none
SiteProfile(c) == IF c = 1 THEN FormProfile ELSE Null

NextSites ==
    \/ \E pr \in FormParseResults : UploadComplete(pr)
    \/ \E response \in {SiteProfile(context)} : ScanCurrentPage(response)
    \/ \E c \in 1..Len(Pages) : ContextChanges(c)
    \/ FillPage
    \/ Reload

SpecSites == InitFill /\ [][NextSites]_vars

\* C29: after a scan of the page at URL u, the profile the plan is made with is the
\* one resolved for u, or none when u has none: the profile of a site scanned before
\* is never used on a site that has no profile.
C29_ProfileOfScannedSite ==
    scanned # 0 => currentMappingProfile = SiteProfile(scanned)

\* whether the label is empty or white space only
IsBlank(label) == Trim(Chars(label)) = <<>>

\* C30: the semantic score of an input whose label is empty or white space only is
\* below the acceptance threshold 0.80 for every field, and every score lies in [0, 1]:
\* for every score a fill pass computes.
C30_BlankLabelScoresLow ==
    phase = "fillPage"
    => \A i \in 1..Len(parseResult.fields) :
          (/\ IsReady(parseResult.fields[i])
           /\ ProfileMatch(parseResult.fields[i], domInputs, currentMappingProfile) = 0)
          => \E scores \in {Scores(parseResult.fields[i], domInputs)} :
                \A k \in 1..Len(domInputs) :
                   /\ scores[k] \in 0..100
                   /\ IsBlank(domInputs[k].label) => scores[k] < MEDIUM

====
